---- MODULE Spec2Model ----
(***************************************************************************)
(* recipe_normalizer: the unit converter, the data model, the parsers'     *)
(* failure behaviour, the parser registry and the directory normalizer.    *)
(*                                                                         *)
(* Text that the program lower-cases, strips or compares (recipe names,    *)
(* file suffixes, unit names) is a sequence of code points, so that        *)
(* str.lower, str.strip and the ordering of str are computed, not assumed. *)
(* Numbers are exact rationals over arbitrary-size naturals (a sequence    *)
(* of base-10000 digits, least significant first), tagged int or float as  *)
(* the Python value is; nan is the float that is no number.                *)
(***************************************************************************)
EXTENDS Integers, Sequences, FiniteSets, TLC

(***************************************************************************)
(* Text.                                                                   *)
(***************************************************************************)

\* str.lower on one code point (ASCII letters)
LowerChar(c) == IF c >= 65 /\ c <= 90 THEN c + 32 ELSE c

\* str.lower
Lower(s) == [i \in 1..Len(s) |-> LowerChar(s[i])]

\* the code points str.strip removes
IsSpace(c) == c \in {9, 10, 11, 12, 13, 32}

RECURSIVE LStrip(_)
LStrip(s) == IF s # <<>> /\ IsSpace(Head(s)) THEN LStrip(Tail(s)) ELSE s

RECURSIVE RStrip(_)
RStrip(s) ==
    IF s # <<>> /\ IsSpace(s[Len(s)]) THEN RStrip(SubSeq(s, 1, Len(s) - 1)) ELSE s

\* the text as it is: no strip()
unstripped(s) == s

\* str.strip
Strip(s) == RStrip(LStrip(s))

\* a < b on str: lexicographic on code points, a proper prefix is smaller
RECURSIVE StrLess(_, _)
StrLess(a, b) ==
    IF b = <<>> THEN FALSE
    ELSE IF a = <<>> THEN TRUE
    ELSE IF Head(a) # Head(b) THEN Head(a) < Head(b)
    ELSE StrLess(Tail(a), Tail(b))

\* Optional values: None is the empty tuple, a present value v is <<v>>.
None == <<>>
Some(v) == <<v>>

(***************************************************************************)
(* Arbitrary-size naturals: the digits in base 2^15, least significant     *)
(* first, no high-order zero; a product of two digits stays below 2^31.    *)
(***************************************************************************)

Base == 2 ^ 15

\* drop the high-order zero digits
RECURSIVE BNorm(_)
BNorm(a) ==
    IF a # <<>> /\ a[Len(a)] = 0 THEN BNorm(SubSeq(a, 1, Len(a) - 1)) ELSE a

\* the natural of a non-negative integer below 2^31
BFromInt(k) ==
    BNorm(<<k % Base, (k \div Base) % Base, k \div (Base * Base)>>)

BDigit(a, i) == IF i >= 1 /\ i <= Len(a) THEN a[i] ELSE 0

RECURSIVE BAddFrom(_, _, _, _)
BAddFrom(a, b, i, carry) ==
    IF i > Len(a) /\ i > Len(b)
    THEN (IF carry = 0 THEN <<>> ELSE <<carry>>)
    ELSE LET s == BDigit(a, i) + BDigit(b, i) + carry
         IN  <<s % Base>> \o BAddFrom(a, b, i + 1, s \div Base)

BAdd(a, b) == BAddFrom(a, b, 1, 0)

\* the highest position where a and b differ, 0 if none
BTopDifference(a, b) ==
    LET differ == {i \in 1..Len(a) : a[i] # b[i]}
    IN  IF differ = {} THEN 0 ELSE CHOOSE i \in differ : \A j \in differ : j <= i

\* -1, 0, 1 as a < b, a = b, a > b
BCmp(a, b) ==
    IF Len(a) < Len(b) THEN -1
    ELSE IF Len(a) > Len(b) THEN 1
    ELSE LET i == BTopDifference(a, b)
         IN  IF i = 0 THEN 0 ELSE IF a[i] < b[i] THEN -1 ELSE 1

\* a - b for a >= b
RECURSIVE BSubFrom(_, _, _, _)
BSubFrom(a, b, i, borrow) ==
    IF i > Len(a) THEN <<>>
    ELSE LET s == a[i] - BDigit(b, i) - borrow
         IN  IF s < 0
             THEN <<s + Base>> \o BSubFrom(a, b, i + 1, 1)
             ELSE <<s>> \o BSubFrom(a, b, i + 1, 0)

BSub(a, b) == BNorm(BSubFrom(a, b, 1, 0))

\* a * k for a digit k
RECURSIVE BMulSmallFrom(_, _, _, _)
BMulSmallFrom(a, k, i, carry) ==
    IF i > Len(a)
    THEN (IF carry = 0 THEN <<>> ELSE <<carry>>)
    ELSE LET s == a[i] * k + carry
         IN  <<s % Base>> \o BMulSmallFrom(a, k, i + 1, s \div Base)

BMulSmall(a, k) == IF k = 0 \/ a = <<>> THEN <<>> ELSE BMulSmallFrom(a, k, 1, 0)

\* a * Base^k
BShiftDigits(a, k) == IF a = <<>> THEN <<>> ELSE [i \in 1..k |-> 0] \o a

RECURSIVE BMulFrom(_, _, _)
BMulFrom(a, b, i) ==
    IF i > Len(b) THEN <<>>
    ELSE BAdd(BMulSmall(a, b[i]), BShiftDigits(BMulFrom(a, b, i + 1), 1))

BMul(a, b) ==
    IF a = <<>> \/ b = <<>> THEN <<>>
    ELSE IF Len(a) < Len(b) THEN BMulFrom(b, a, 1) ELSE BMulFrom(a, b, 1)

\* 2^k
BPow2(k) == BShiftDigits(<<2 ^ (k % 15)>>, k \div 15)

\* a * 2^k
BShiftLeft(a, k) == BShiftDigits(BMulSmall(a, 2 ^ (k % 15)), k \div 15)

\* whether 2^k divides a
BDividesPow2(a, k) ==
    /\ \A i \in 1..(k \div 15) : BDigit(a, i) = 0
    /\ BDigit(a, (k \div 15) + 1) % (2 ^ (k % 15)) = 0

\* the number of bits of a: 0 for 0, else floor(log2 a) + 1
BitLength(a) ==
    IF a = <<>> THEN 0
    ELSE 15 * (Len(a) - 1)
         + (CHOOSE b \in 1..15 : 2 ^ (b - 1) <= a[Len(a)] /\ a[Len(a)] < 2 ^ b)

\* floor(a / k) for a digit k > 0, from the high digit down
RECURSIVE BDivSmallFrom(_, _, _, _)
BDivSmallFrom(a, k, i, rem) ==
    IF i = 0 THEN <<>>
    ELSE LET cur == rem * Base + a[i]
         IN  BDivSmallFrom(a, k, i - 1, cur % k) \o <<cur \div k>>

BDivSmall(a, k) == BNorm(BDivSmallFrom(a, k, Len(a), 0))

\* the quotient digit of cur by d, for cur < d * Base and a d whose high digit
\* is at least Base / 2: the estimate from the high digits is at most 2 too big
QuotientDigit(cur, d) ==
    LET top == BDigit(cur, Len(d) + 1) * Base + BDigit(cur, Len(d))
        estimate == top \div d[Len(d)]
        qhat == IF estimate > Base - 1 THEN Base - 1 ELSE estimate
    IN  IF BCmp(BMulSmall(d, qhat), cur) <= 0 THEN qhat
        ELSE IF BCmp(BMulSmall(d, qhat - 1), cur) <= 0 THEN qhat - 1
        ELSE qhat - 2

\* long division of n by d from the high digit down: q holds the quotient
\* digits found so far and rem the remainder of the digits consumed
RECURSIVE BDivFrom(_, _, _, _)
BDivFrom(n, d, q, rem) ==
    IF Len(q) = Len(n) THEN q
    ELSE LET cur == BNorm(<<n[Len(n) - Len(q)]>> \o rem)
             k == QuotientDigit(cur, d)
         IN  BDivFrom(n, d, <<k>> \o q, BSub(cur, BMulSmall(d, k)))

\* floor(n / d) for d > 0: both scaled so that the high digit of d is large
BQuot(n, d) ==
    LET f == Base \div (d[Len(d)] + 1)
    IN  BNorm(BDivFrom(BMulSmall(n, f), BMulSmall(d, f), <<>>, <<>>))

\* a / 2^k for a multiple a of 2^k
BShiftRight(a, k) == BQuot(a, BPow2(k))

BIsEven(a) == a = <<>> \/ a[1] % 2 = 0

(***************************************************************************)
(* Numbers.  A rational is [neg, n, d]: (-1)^neg * n / d with d > 0 and    *)
(* neg false for zero.  A Python number is [kind, neg, n, d] with kind     *)
(* "int", "float" or "nan"; an int has d = 1 and a float is a binary64     *)
(* value m * 2^e in lowest terms, so equal numbers are equal records.      *)
(***************************************************************************)

Rat(neg, n, d) == [neg |-> neg /\ n # <<>>, n |-> n, d |-> d]

RatOfInt(k) == Rat(k < 0, BFromInt(IF k < 0 THEN -k ELSE k), <<1>>)

\* the rational k / den for integers k and den > 0
RatOf(k, den) == Rat(k < 0, BFromInt(IF k < 0 THEN -k ELSE k), BFromInt(den))

RatOfNum(x) == Rat(x.neg, x.n, x.d)

RatMul(a, b) == Rat(a.neg # b.neg, BMul(a.n, b.n), BMul(a.d, b.d))

\* a / b for b # 0
RatDiv(a, b) == Rat(a.neg # b.neg, BMul(a.n, b.d), BMul(a.d, b.n))

\* -1, 0, 1 as a < b, a = b, a > b
RatCmp(a, b) ==
    IF a.neg # b.neg THEN (IF a.neg THEN -1 ELSE 1)
    ELSE LET c == BCmp(BMul(a.n, b.d), BMul(b.n, a.d))
         IN  IF a.neg THEN -c ELSE c

\* math.floor of a rational, as a rational with d = 1
RatFloor(a) ==
    LET q == BQuot(a.n, a.d)
        exact == BMul(q, a.d) = a.n
    IN  IF ~a.neg \/ exact THEN Rat(a.neg, q, <<1>>)
        ELSE Rat(TRUE, BAdd(q, <<1>>), <<1>>)

\* the e with 2^52 <= n / (d * 2^e) < 2^53
MantissaExponent(n, d) ==
    LET e == BitLength(n) - BitLength(d) - 53
        more == IF e + 53 >= 0
                THEN BCmp(n, BShiftLeft(d, e + 53)) >= 0
                ELSE BCmp(BShiftLeft(n, -(e + 53)), d) >= 0
    IN  IF more THEN e + 1 ELSE e

\* the largest k <= limit for which 2^k divides m, for 0 < m <= 2^53
TrailingZeros(m, limit) ==
    CHOOSE k \in 0..53 :
        /\ k <= limit /\ BDividesPow2(m, k)
        /\ \A j \in (k + 1)..53 : ~(j <= limit /\ BDividesPow2(m, j))

\* m * 2^e for e < 0, with the 2^k common to m and 2^-e cancelled
Reduced(neg, m, e, k) == Rat(neg, BShiftRight(m, k), BPow2(-e - k))

\* m * 2^e in lowest terms, for m <= 2^53
Dyadic(neg, m, e) ==
    IF m = <<>> THEN Rat(FALSE, <<>>, <<1>>)
    ELSE IF e >= 0 THEN Rat(neg, BShiftLeft(m, e), <<1>>)
    ELSE Reduced(neg, m, e, TrailingZeros(m, -e))

\* m or m + 1 as n / d is nearer to the one or the other, for m = floor(n / d):
\* a tie goes to the even one
RoundedQuotient(m, twice_rest_to_d) ==
    IF (IF BIsEven(m) THEN twice_rest_to_d > 0 ELSE twice_rest_to_d >= 0)
    THEN BAdd(m, <<1>>)
    ELSE m

\* the comparison of n / d - m with 1/2
HalfCompare(n, d, m) == BCmp(BMulSmall(BSub(n, BMul(m, d)), 2), d)

NearestTo(n, d, m) == RoundedQuotient(m, HalfCompare(n, d, m))

\* the integer nearest to n / d, a tie to the even one
NearestEven(n, d) == NearestTo(n, d, BQuot(n, d))

\* a to 53 bits, for the e with 2^52 <= |a| / 2^e < 2^53
RoundAtExponent(a, e) ==
    IF e >= 0
    THEN Dyadic(a.neg, NearestEven(a.n, BShiftLeft(a.d, e)), e)
    ELSE Dyadic(a.neg, NearestEven(BShiftLeft(a.n, -e), a.d), e)

\* the binary64 value nearest to a rational, a tie to the even mantissa
RoundToDouble(a) ==
    IF a.n = <<>> THEN Rat(FALSE, <<>>, <<1>>)
    ELSE RoundAtExponent(a, MantissaExponent(a.n, a.d))

PyNum(kind, r) == [kind |-> kind, neg |-> r.neg, n |-> r.n, d |-> r.d]

\* the float that is not a number
NaN == [kind |-> "nan", neg |-> FALSE, n |-> <<>>, d |-> <<1>>]

IsNaN(x) == x.kind = "nan"

\* an int
PyInt(k) == PyNum("int", RatOfInt(k))

\* the float a decimal literal k / den denotes: float("0.44") is PyFloat(44, 100)
PyFloat(k, den) == PyNum("float", RoundToDouble(RatOf(k, den)))

\* float(x): a float is returned as it is, an int goes to the nearest float
float(x) ==
    IF x.kind = "int" THEN PyNum("float", RoundToDouble(RatOfNum(x))) ELSE x

\* x >= k for an int literal k; false on nan
NumGeqInt(x, k) == ~IsNaN(x) /\ RatCmp(RatOfNum(x), RatOfInt(k)) >= 0

\* x < k for an int literal k; false on nan
NumLessInt(x, k) == ~IsNaN(x) /\ RatCmp(RatOfNum(x), RatOfInt(k)) < 0

\* x == y on numbers: by value, false when either is nan
NumEq(x, y) == ~IsNaN(x) /\ ~IsNaN(y) /\ RatCmp(RatOfNum(x), RatOfNum(y)) = 0

\* float * int literal, correctly rounded
FloatMulInt(x, k) ==
    IF IsNaN(x) THEN NaN
    ELSE PyNum("float", RoundToDouble(RatMul(RatOfNum(x), RatOfInt(k))))

\* int / int literal (true division), correctly rounded
FloatDivInt(x, k) ==
    IF IsNaN(x) THEN NaN
    ELSE PyNum("float", RoundToDouble(RatDiv(RatOfNum(x), RatOfInt(k))))

(***************************************************************************)
(* Unit names, as text.                                                    *)
(***************************************************************************)

\* ""
s_empty == <<>>
\* "   "
s_blank == <<32, 32, 32>>
\* "cup"
s_cup == <<99, 117, 112>>
\* "cups"
s_cups == <<99, 117, 112, 115>>
\* " Cup "
s_Cup_padded == <<32, 67, 117, 112, 32>>
\* "gallon"
s_gallon == <<103, 97, 108, 108, 111, 110>>
\* "fl. oz."
s_fl_oz_dots == <<102, 108, 46, 32, 111, 122, 46>>
\* "fl oz"
s_fl_oz == <<102, 108, 32, 111, 122>>
\* "floz"
s_floz == <<102, 108, 111, 122>>
\* "tablespoon"
s_tablespoon == <<116, 97, 98, 108, 101, 115, 112, 111, 111, 110>>
\* "teaspoon"
s_teaspoon == <<116, 101, 97, 115, 112, 111, 111, 110>>
\* "ml"
s_ml == <<109, 108>>
\* "milliliter"
s_milliliter == <<109, 105, 108, 108, 105, 108, 105, 116, 101, 114>>
\* "liter"
s_liter == <<108, 105, 116, 101, 114>>
\* "gr"
s_gr == <<103, 114>>
\* "gram"
s_gram == <<103, 114, 97, 109>>
\* "kg"
s_kg == <<107, 103>>
\* "kilogram"
s_kilogram == <<107, 105, 108, 111, 103, 114, 97, 109>>
\* "pound"
s_pound == <<112, 111, 117, 110, 100>>
\* "ounce"
s_ounce == <<111, 117, 110, 99, 101>>
\* "grain"
s_grain == <<103, 114, 97, 105, 110>>
\* "pinch"
s_pinch == <<112, 105, 110, 99, 104>>
\* "meter"
s_meter == <<109, 101, 116, 101, 114>>

(***************************************************************************)
(* converters/units.py: UnitConverter.                                     *)
(***************************************************************************)

\* UNIT_ALIASES.get(normalized, normalized)
UNIT_ALIASES(name) ==
    IF name = s_fl_oz_dots THEN s_floz
    ELSE IF name = s_fl_oz THEN s_floz
    ELSE IF name = s_gr THEN s_gram
    ELSE name

VOLUME_TARGET == s_milliliter
VOLUME_TARGET_LARGE == s_liter
WEIGHT_TARGET == s_gram
VOLUME_THRESHOLD_ML == 1000

\* cup = 240 * milliliter
CupMilliliters == 240

\* the cup of pint's default registry: half a US pint, 236.5882365 ml
pint_default_cup ==
    [name |-> s_cup, names |-> {s_cup, s_cups},
     dim |-> "volume", n |-> 473176473, d |-> 2000000]

\* _define_cooking_units: the cup is redefined as 240 ml
define_cooking_units ==
    [name |-> s_cup, names |-> {s_cup, s_cups},
     dim |-> "volume", n |-> CupMilliliters, d |-> 1]

\* The units the registry built in __init__ resolves, among the names the
\* model uses: the name a unit prints as, the spellings that resolve to it
\* (plural and symbol included), its dimension, and its size n / d in the
\* unit its dimension is measured in here (milliliter, gram, meter).  The
\* gallon is 231 cubic inches of 16.387064 ml; the pound is 453.59237 g.
UnitRegistry ==
    { [name |-> s_milliliter, names |-> {s_milliliter, s_ml},
       dim |-> "volume", n |-> 1, d |-> 1],
      [name |-> s_liter, names |-> {s_liter},
       dim |-> "volume", n |-> 1000, d |-> 1],
      define_cooking_units,
      [name |-> s_gallon, names |-> {s_gallon},
       dim |-> "volume", n |-> 473176473, d |-> 125000],
      [name |-> s_floz, names |-> {s_floz},
       dim |-> "volume", n |-> 473176473, d |-> 16000000],
      [name |-> s_tablespoon, names |-> {s_tablespoon},
       dim |-> "volume", n |-> 473176473, d |-> 32000000],
      [name |-> s_teaspoon, names |-> {s_teaspoon},
       dim |-> "volume", n |-> 473176473, d |-> 96000000],
      [name |-> s_gram, names |-> {s_gram},
       dim |-> "mass", n |-> 1, d |-> 1],
      [name |-> s_kilogram, names |-> {s_kilogram, s_kg},
       dim |-> "mass", n |-> 1000, d |-> 1],
      [name |-> s_pound, names |-> {s_pound},
       dim |-> "mass", n |-> 45359237, d |-> 100000],
      [name |-> s_ounce, names |-> {s_ounce},
       dim |-> "mass", n |-> 45359237, d |-> 1600000],
      [name |-> s_grain, names |-> {s_grain, s_gr},
       dim |-> "mass", n |-> 6479891, d |-> 100000000],
      [name |-> s_meter, names |-> {s_meter},
       dim |-> "length", n |-> 1, d |-> 1] }

\* the registry resolves the name (otherwise pint raises UndefinedUnitError)
IsDefinedUnit(unit_str) == \E u \in UnitRegistry : unit_str \in u.names

\* the unit a resolvable name denotes
ParseUnit(unit_str) == CHOOSE u \in UnitRegistry : unit_str \in u.names

\* the unit of a target name
TargetUnit(name) == CHOOSE u \in UnitRegistry : u.name = name

\* Quantity.to(target).magnitude: the magnitude times the ratio of the two
\* units' sizes, to the nearest float
QuantityTo(magnitude, unit, target) ==
    IF IsNaN(magnitude) THEN NaN
    ELSE LET dst == TargetUnit(target)
             factor == RatDiv(RatOf(unit.n, unit.d), RatOf(dst.n, dst.d))
         IN  PyNum("float", RoundToDouble(RatMul(RatOfNum(magnitude), factor)))

\* _normalize_unit_name
normalize_unit_name(unit) == UNIT_ALIASES(Strip(Lower(unit)))

\* _is_volume_unit
is_volume_unit(unit_str) ==
    IsDefinedUnit(unit_str)
    /\ ParseUnit(unit_str).dim = TargetUnit(s_milliliter).dim

\* a test that takes every unit the registry resolves for a weight
is_any_unit(unit_str) == IsDefinedUnit(unit_str)

\* _is_weight_unit
is_weight_unit(unit_str) ==
    IsDefinedUnit(unit_str)
    /\ ParseUnit(unit_str).dim = TargetUnit(s_gram).dim

\* _format_output_unit
format_output_unit(unit) ==
    IF unit = s_milliliter THEN s_ml
    ELSE IF unit = s_liter THEN s_liter
    ELSE IF unit = s_gram THEN s_gr
    ELSE unit

ConversionResult(quantity, unit) == [quantity |-> quantity, unit |-> unit]

\* magnitude > VOLUME_THRESHOLD_ML
AboveVolumeThreshold(magnitude) ==
    NumGeqInt(magnitude, VOLUME_THRESHOLD_ML)
    /\ ~NumEq(magnitude, PyInt(VOLUME_THRESHOLD_ML))

\* the threshold test of _convert_volume
AtVolumeThreshold(magnitude) == NumGeqInt(magnitude, VOLUME_THRESHOLD_ML)

\* the return of _convert_volume, for the magnitude in milliliters
volume_result(magnitude, unit, milliliters) ==
    IF AtVolumeThreshold(milliliters)
    THEN ConversionResult(float(QuantityTo(magnitude, unit, VOLUME_TARGET_LARGE)),
                          format_output_unit(VOLUME_TARGET_LARGE))
    ELSE ConversionResult(float(milliliters), format_output_unit(VOLUME_TARGET))

\* _convert_volume, on the source quantity's magnitude and unit
convert_volume(magnitude, unit) ==
    volume_result(magnitude, unit, QuantityTo(magnitude, unit, VOLUME_TARGET))

\* a weight conversion with a large unit, as _convert_volume has one
convert_weight_thresholded(magnitude, unit) ==
    IF NumGeqInt(QuantityTo(magnitude, unit, WEIGHT_TARGET), 1000)
    THEN ConversionResult(float(QuantityTo(magnitude, unit, s_kilogram)),
                          format_output_unit(s_kilogram))
    ELSE ConversionResult(float(QuantityTo(magnitude, unit, WEIGHT_TARGET)),
                          format_output_unit(WEIGHT_TARGET))

\* _convert_weight
convert_weight(magnitude, unit) ==
    ConversionResult(float(QuantityTo(magnitude, unit, WEIGHT_TARGET)),
                     format_output_unit(WEIGHT_TARGET))

\* convert: unit is None or Some(text)
convert(quantity, unit) ==
    IF unit = None \/ Strip(unit[1]) = s_empty
    THEN ConversionResult(float(quantity), s_empty)
    ELSE LET normalized_unit == normalize_unit_name(unit[1])
         IN  IF ~IsDefinedUnit(normalized_unit)
             THEN ConversionResult(float(quantity), unit[1])
             ELSE IF is_volume_unit(normalized_unit)
             THEN convert_volume(quantity, ParseUnit(normalized_unit))
             ELSE IF is_weight_unit(normalized_unit)
             THEN convert_weight(quantity, ParseUnit(normalized_unit))
             ELSE ConversionResult(float(quantity), unit[1])

\* the result of a call: a value, or the exception it raised
Ok(v) == [ok |-> TRUE, val |-> v, exc |-> "none"]
Raise(e) == [ok |-> FALSE, val |-> <<>>, exc |-> e]

\* the rest of a function body after a call: it runs on the value the call
\* returned, and an exception the call raised leaves the function
Then(result, rest(_)) == IF result.ok THEN rest(result.val) ELSE result

\* except <caught> as e: raise <raised> from e
Except(result, caught, wrapped) ==
    IF ~result.ok /\ result.exc \in caught THEN Raise(wrapped) ELSE result

\* math.floor, int() and round() give an int
RatTrunc(a) == Rat(a.neg, BQuot(a.n, a.d), <<1>>)

\* round(): the nearest integer, a tie to the even one
RatRound(a) == Rat(a.neg, NearestEven(a.n, a.d), <<1>>)

\* int(x) of a float
int(x) == PyNum("int", RatTrunc(RatOfNum(x)))

\* math.floor(x) of a float
floor(x) == PyNum("int", RatFloor(RatOfNum(x)))

\* the last three lines of round_quantity
whole_or_truncated(truncated) ==
    IF NumEq(truncated, int(truncated)) THEN int(truncated) ELSE truncated

\* round_quantity; math.floor raises ValueError on nan
round_quantity(quantity) ==
    IF NumGeqInt(quantity, 10)
    THEN Ok(PyNum("int", RatRound(RatOfNum(quantity))))
    ELSE IF IsNaN(quantity) THEN Raise("ValueError")
    ELSE Ok(whole_or_truncated(FloatDivInt(floor(FloatMulInt(quantity, 100)), 100)))

(***************************************************************************)
(* models.py: Ingredient and Recipe.  An optional field is None or         *)
(* Some(value).                                                            *)
(***************************************************************************)

\* an Ingredient built without its validators
Ingredient_unvalidated(item, quantity, unit, comment) ==
    Ok([item |-> item, quantity |-> quantity, unit |-> unit,
        comment |-> comment])

\* Ingredient(...): the validators item_must_not_be_empty and
\* quantity_must_be_positive
Ingredient(item, quantity, unit, comment) ==
    IF Strip(item) = s_empty THEN Raise("PydanticValidationError")
    ELSE IF quantity # None /\ NumLessInt(quantity[1], 0)
    THEN Raise("PydanticValidationError")
    ELSE Ok([item |-> Strip(item), quantity |-> quantity, unit |-> unit,
             comment |-> comment])

\* Recipe(...): the validator name_must_not_be_empty
Recipe(name, ingredients, preparations) ==
    IF Strip(name) = s_empty THEN Raise("PydanticValidationError")
    ELSE Ok([name |-> Strip(name), ingredients |-> ingredients,
             preparations |-> preparations])

(***************************************************************************)
(* exceptions.py.                                                          *)
(***************************************************************************)

\* the subclasses of RecipeNormalizerError
RecipeNormalizerError ==
    {"ParseError", "ValidationError", "FileReadError", "FileWriteError",
     "UnsupportedFormatError", "EmptyDirectoryError"}

(***************************************************************************)
(* parsers.  A file is [path, is_file, suffix, content]; its content is    *)
(* [load, doc]: load is what reading it does ("ok", "not_found",           *)
(* "permission", "malformed" for text that is not XML or YAML, "crash" for *)
(* any other exception raised while it is read, such as MemoryError), and  *)
(* doc is the document read: [shape, name, ingredients, preparations],     *)
(* shape "dict" for a mapping and "other" for anything else (in XML: a     *)
(* root element holding text or nothing).  A document's ingredient is      *)
(* [item, quantity, unit, comment]; a quantity is the number float() gives *)
(* for it, or of kind "str" when float() raises ValueError.                *)
(***************************************************************************)

\* _parse_quantity (the same code in both parsers)
parse_quantity(data) ==
    IF data.quantity = None THEN None
    ELSE IF data.quantity[1].kind = "str" THEN None
    ELSE Some(float(data.quantity[1]))

\* _parse_unit
parse_unit(data) ==
    IF data.unit = None THEN None
    ELSE IF Strip(data.unit[1]) = s_empty THEN None
    ELSE Some(Strip(data.unit[1]))

\* _parse_comment
parse_comment(data) ==
    IF data.comment = None THEN None ELSE Some(Strip(data.comment[1]))

\* _parse_single_ingredient: None (no result) for a record with no item
parse_single_ingredient(data) ==
    IF data.item = None \/ data.item[1] = s_empty THEN Ok(None)
    ELSE Then(Ingredient(Strip(data.item[1]), parse_quantity(data),
                         parse_unit(data), parse_comment(data)),
              LAMBDA ingredient : Ok(Some(ingredient)))

\* _parse_ingredients: the ingredients parsed, in order, or the first exception
RECURSIVE parse_ingredients(_)
parse_ingredients(ingredients_data) ==
    IF ingredients_data = <<>> THEN Ok(<<>>)
    ELSE Then(parse_single_ingredient(Head(ingredients_data)),
              LAMBDA ingredient :
                  Then(parse_ingredients(Tail(ingredients_data)),
                       LAMBDA ingredients : Ok(ingredient \o ingredients)))

\* _parse_preparations: the steps stripped, the empty ones dropped
parse_preparations(preparations_data) ==
    LET kept == SelectSeq(preparations_data, LAMBDA prep : prep # s_empty)
    IN  [i \in 1..Len(kept) |-> Strip(kept[i])]

\* the try block of parse: name, ingredients, preparations, Recipe(...), with
\* PydanticValidationError turned into ValidationError
parse_document(doc) ==
    IF doc.name = None \/ doc.name[1] = s_empty THEN Raise("ParseError")
    ELSE Except(Then(parse_ingredients(doc.ingredients),
                     LAMBDA ingredients :
                         Recipe(Strip(doc.name[1]), ingredients,
                                parse_preparations(doc.preparations))),
                {"PydanticValidationError"}, "ValidationError")

\* XmlRecipeParser._load_xml: every exception but the two file errors, whatever
\* its type, leaves as ParseError
load_xml(file) ==
    IF file.content.load = "ok" THEN Ok(file.content.doc)
    ELSE IF file.content.load = "not_found" THEN Raise("FileReadError")
    ELSE IF file.content.load = "permission" THEN Raise("FileReadError")
    ELSE Raise("ParseError")

\* XmlRecipeParser.parse: root.get on a root that is no mapping raises
\* AttributeError
XmlRecipeParser_parse(file) ==
    Then(load_xml(file),
         LAMBDA root : IF root.shape # "dict" THEN Raise("AttributeError")
                       ELSE parse_document(root))

\* YamlRecipeParser.parse: an exception that is none of the three caught
\* leaves as it is
YamlRecipeParser_parse(file) ==
    IF file.content.load = "not_found" THEN Raise("FileReadError")
    ELSE IF file.content.load = "permission" THEN Raise("FileReadError")
    ELSE IF file.content.load = "malformed" THEN Raise("ParseError")
    ELSE IF file.content.load = "crash" THEN Raise("MemoryError")
    ELSE IF file.content.doc.shape # "dict" THEN Raise("ParseError")
    ELSE parse_document(file.content.doc)

\* ".xml"
ext_xml == <<46, 120, 109, 108>>
\* ".yaml"
ext_yaml == <<46, 121, 97, 109, 108>>
\* ".yml"
ext_yml == <<46, 121, 109, 108>>
\* ".txt"
ext_txt == <<46, 116, 120, 116>>
\* ".XML"
ext_XML == <<46, 88, 77, 76>>
\* ".YAML"
ext_YAML == <<46, 89, 65, 77, 76>>
\* ".json"
ext_json == <<46, 106, 115, 111, 110>>

\* SUPPORTED_EXTENSIONS of a parser class
SUPPORTED_EXTENSIONS(parser) ==
    IF parser = "XmlRecipeParser" THEN {ext_xml}
    ELSE IF parser = "YamlRecipeParser" THEN {ext_yaml, ext_yml}
    ELSE {}

\* supports_extension
supports_extension(parser, extension) ==
    Lower(extension) \in SUPPORTED_EXTENSIONS(parser)

\* parser.parse, by parser class
parser_parse(parser, file) ==
    IF parser = "XmlRecipeParser" THEN XmlRecipeParser_parse(file)
    ELSE YamlRecipeParser_parse(file)

(***************************************************************************)
(* parsers/registry.py: ParserRegistry, as the list of its parsers.        *)
(***************************************************************************)

\* the parsers of the list that accept the suffix, in registration order
Accepting(parsers, suffix) ==
    SelectSeq(parsers, LAMBDA parser : supports_extension(parser, suffix))

\* a lookup that takes the first parser registered, whatever it accepts
first_registered_parser(parsers, file) ==
    IF parsers = <<>> THEN None ELSE Some(Head(parsers))

\* get_parser_for_file: the first parser that accepts, or None
get_parser_for_file(parsers, file) ==
    IF Accepting(parsers, file.suffix) = <<>> THEN None
    ELSE Some(Head(Accepting(parsers, file.suffix)))

\* ParserRegistry.parse
registry_parse(parsers, file) ==
    LET parser == get_parser_for_file(parsers, file)
    IN  IF parser = None THEN Raise("UnsupportedFormatError")
        ELSE parser_parse(parser[1], file)

\* a list of extensions written down by hand, not asked of the parsers
hardcoded_extensions(parsers) == {ext_xml, ext_yaml, ext_yml, ext_txt}

\* get_supported_extensions
get_supported_extensions(parsers) ==
    UNION {SUPPORTED_EXTENSIONS(parsers[i]) : i \in 1..Len(parsers)}

\* cli.create_parser_registry
create_parser_registry == <<"XmlRecipeParser", "YamlRecipeParser">>

(***************************************************************************)
(* services/normalizer.py: RecipeNormalizer.                               *)
(***************************************************************************)

\* a normalization that builds a new Ingredient also without a quantity, the
\* unit in its output form and an empty unit made None
normalize_ingredient_rebuilding(ingredient) ==
    IF ingredient.quantity = None
    THEN Ingredient(ingredient.item, None,
                    IF ingredient.unit = None \/ ingredient.unit = Some(s_empty)
                    THEN None
                    ELSE Some(convert(PyInt(0), ingredient.unit).unit),
                    ingredient.comment)
    ELSE Then(Ok(convert(ingredient.quantity[1], ingredient.unit)),
              LAMBDA result :
                  Then(round_quantity(result.quantity),
                       LAMBDA rounded_quantity :
                           Ingredient(ingredient.item, Some(rounded_quantity),
                                      IF result.unit # s_empty
                                      THEN Some(result.unit) ELSE None,
                                      ingredient.comment)))

\* _normalize_ingredient
normalize_ingredient(ingredient) ==
    IF ingredient.quantity = None THEN Ok(ingredient)
    ELSE Then(Ok(convert(ingredient.quantity[1], ingredient.unit)),
              LAMBDA result :
                  Then(round_quantity(result.quantity),
                       LAMBDA rounded_quantity :
                           Ingredient(ingredient.item, Some(rounded_quantity),
                                      IF result.unit # s_empty
                                      THEN Some(result.unit) ELSE None,
                                      ingredient.comment)))

\* a comprehension that builds the list back to front
RECURSIVE normalize_ingredients_reversed(_)
normalize_ingredients_reversed(ingredients) ==
    IF ingredients = <<>> THEN Ok(<<>>)
    ELSE Then(normalize_ingredient(Head(ingredients)),
              LAMBDA ing :
                  Then(normalize_ingredients_reversed(Tail(ingredients)),
                       LAMBDA rest : Ok(rest \o <<ing>>)))

\* the list comprehension of _normalize_recipe
RECURSIVE normalize_ingredients(_)
normalize_ingredients(ingredients) ==
    IF ingredients = <<>> THEN Ok(<<>>)
    ELSE Then(normalize_ingredient(Head(ingredients)),
              LAMBDA ing :
                  Then(normalize_ingredients(Tail(ingredients)),
                       LAMBDA rest : Ok(<<ing>> \o rest)))

\* _normalize_recipe
normalize_recipe(recipe) ==
    Then(normalize_ingredients(recipe.ingredients),
         LAMBDA normalized_ingredients :
             Recipe(recipe.name, normalized_ingredients, recipe.preparations))

\* _normalize_file
normalize_file(parsers, file) ==
    Then(registry_parse(parsers, file), normalize_recipe)

\* list.sort, ascending: each element goes after those not greater than it
RECURSIVE InsertByKey(_, _)
InsertByKey(sorted, r) ==
    IF sorted = <<>> THEN <<r>>
    ELSE IF StrLess(Lower(r.name), Lower(Head(sorted).name))
    THEN <<r>> \o sorted
    ELSE <<Head(sorted)>> \o InsertByKey(Tail(sorted), r)

RECURSIVE SortByKey(_)
SortByKey(rs) ==
    IF rs = <<>> THEN <<>>
    ELSE InsertByKey(SortByKey(SubSeq(rs, 1, Len(rs) - 1)), rs[Len(rs)])

Reverse(seq) == [i \in 1..Len(seq) |-> seq[Len(seq) + 1 - i]]

\* the list as it is, unsorted
unsorted(rs) == rs

\* sorted(...) without reverse=True
sorted_ascending(rs) == SortByKey(rs)

\* sorted(...)[::-1]: the ascending order turned round, ties with it
sorted_then_reversed(rs) == Reverse(SortByKey(rs))

\* _sort_recipes: sorted(..., reverse=True) reverses the list, sorts it
\* ascending and stably, and reverses the result
sort_recipes(rs) == Reverse(SortByKey(Reverse(rs)))

(***************************************************************************)
(* The state: one call of normalize_directory, and one call of convert.    *)
(***************************************************************************)
VARIABLES
    input_dir,              \* [is_dir, entries]: entries in iterdir() order
    skip_errors,
    pc,                     \* "call", "loop", "returned", "raised"; "idle";
                            \* in main also "main", "exported",
                            \* "export_raised", "exited"
    idx,                    \* the position of the loop in entries
    supported_extensions,
    recipes,
    errors,                 \* <<path, exception>> pairs
    parsed,                 \* the calls of _normalize_file, in order:
                            \* [path, result]
    returned,               \* the list normalize_directory returned
    raised,                 \* None, or Some([type, file, message]) raised
    conv_quantity,          \* the arguments of convert
    conv_unit,
    conv_result,            \* None, or Some(ConversionResult)
    round_arg,              \* the argument of round_quantity
    round_result,           \* None, or Some(what the call returned or raised)
    serialized,             \* None, or Some(serialize_quantity of the result)
    source_recipe,          \* a Recipe object, or None
    normalized,             \* None, or Some(_normalize_recipe(source_recipe))
    renormalized,           \* None, or Some(_normalize_recipe) of normalized
    clean,                  \* None, or Some(source_recipe.model_dump_clean())
    registry,               \* the parsers of a ParserRegistry, in order
    output,                 \* the output file: None, or Some([complete, data])
    exit_code               \* None, or Some(the exit status of the command)

vars == <<input_dir, skip_errors, pc, idx, supported_extensions, recipes,
          errors, parsed, returned, raised, conv_quantity, conv_unit,
          conv_result, round_arg, round_result, serialized, source_recipe,
          normalized, renormalized, clean, registry, output, exit_code>>

dir_vars == <<input_dir, skip_errors, pc, idx, supported_extensions, recipes,
              errors, parsed, returned, raised>>

conv_vars == <<conv_quantity, conv_unit, conv_result>>

round_vars == <<round_arg, round_result, serialized>>

recipe_vars == <<source_recipe, normalized, renormalized, clean>>

registry_vars == <<registry>>

main_vars == <<output, exit_code>>

\* the variables of the calls made apart from normalize_directory
call_vars == <<conv_vars, round_vars, recipe_vars, registry_vars, main_vars>>

\* no Recipe object at hand
IdleRecipe ==
    /\ source_recipe = None
    /\ normalized = None
    /\ renormalized = None
    /\ clean = None

\* the registry the command line builds
IdleRegistry == registry = create_parser_registry

\* the command has written nothing and has not ended
IdleMain ==
    /\ output = None
    /\ exit_code = None

(***************************************************************************)
(* The files a directory of the model may hold.                            *)
(***************************************************************************)

\* "apple"
s_apple == <<97, 112, 112, 108, 101>>
\* "Apple"
s_Apple == <<65, 112, 112, 108, 101>>
\* " mango "
s_mango_padded == <<32, 109, 97, 110, 103, 111, 32>>
\* "Zebra"
s_Zebra == <<90, 101, 98, 114, 97>>
\* "milk"
s_milk == <<109, 105, 108, 107>>
\* "egg"
s_egg == <<101, 103, 103>>
\* "rice"
s_rice == <<114, 105, 99, 101>>
\* "salt"
s_salt == <<115, 97, 108, 116>>
\* "rinsed"
s_rinsed == <<114, 105, 110, 115, 101, 100>>
\* "Mix"
s_Mix == <<77, 105, 120>>
\* "Cook"
s_Cook == <<67, 111, 111, 107>>
\* "Input path is not a directory: "
s_not_a_directory == <<73, 110, 112, 117, 116, 32, 112, 97, 116, 104, 32, 105, 115, 32, 110, 111, 116, 32, 97, 32, 100, 105, 114, 101, 99, 116, 111, 114, 121, 58, 32>>

RawIngredient(item, quantity, unit, comment) ==
    [item |-> item, quantity |-> quantity, unit |-> unit, comment |-> comment]

Document(shape, name, ingredients, preparations) ==
    [shape |-> shape, name |-> name, ingredients |-> ingredients,
     preparations |-> preparations]

NoDocument == Document("other", None, <<>>, <<>>)

File(path, is_file, suffix, load, doc) ==
    [path |-> path, is_file |-> is_file, suffix |-> suffix,
     content |-> [load |-> load, doc |-> doc]]

\* text float() does not read
NotANumber == [kind |-> "str", neg |-> FALSE, n |-> <<>>, d |-> <<1>>]

Files ==
    { File("apple.xml", TRUE, ext_xml, "ok",
           Document("dict", Some(s_apple),
                    <<RawIngredient(Some(s_milk), Some(PyFloat(1, 1)),
                                    Some(s_gallon), None)>>,
                    <<s_Mix>>)),
      File("Apple.yaml", TRUE, ext_yaml, "ok",
           Document("dict", Some(s_Apple),
                    <<RawIngredient(Some(s_egg), Some(PyInt(2)), None, None),
                      RawIngredient(None, Some(PyInt(1)), Some(s_cup), None),
                      RawIngredient(Some(s_salt), Some(NotANumber),
                                    Some(s_pinch), None),
                      RawIngredient(Some(s_empty), Some(PyInt(1)),
                                    Some(s_cup), None)>>,
                    <<s_Mix, s_empty, s_Cook>>)),
      File("mango.yml", TRUE, ext_yml, "ok",
           Document("dict", Some(s_mango_padded),
                    <<RawIngredient(Some(s_rice), Some(PyFloat(44, 100)),
                                    Some(s_pound), Some(s_rinsed))>>,
                    <<s_Cook>>)),
      File("zebra.yaml", TRUE, ext_yaml, "ok",
           Document("dict", Some(s_Zebra), <<>>, <<>>)),
      File("broken.xml", TRUE, ext_xml, "malformed", NoDocument),
      File("secret.yaml", TRUE, ext_yaml, "permission", NoDocument),
      File("gone.xml", TRUE, ext_xml, "not_found", NoDocument),
      File("huge.xml", TRUE, ext_xml, "crash", NoDocument),
      File("huge.yaml", TRUE, ext_yaml, "crash", NoDocument),
      File("text_root.xml", TRUE, ext_xml, "ok", NoDocument),
      File("list.yaml", TRUE, ext_yaml, "ok", NoDocument),
      File("noname.yml", TRUE, ext_yml, "ok",
           Document("dict", None, <<>>, <<s_Mix>>)),
      File("blank_name.yaml", TRUE, ext_yaml, "ok",
           Document("dict", Some(s_blank), <<>>, <<>>)),
      File("negative.xml", TRUE, ext_xml, "ok",
           Document("dict", Some(s_apple),
                    <<RawIngredient(Some(s_salt), Some(PyFloat(-1, 1)),
                                    None, None)>>,
                    <<>>)),
      File("nan.yaml", TRUE, ext_yaml, "ok",
           Document("dict", Some(s_mango_padded),
                    <<RawIngredient(Some(s_salt), Some(NaN), None, None)>>,
                    <<>>)),
      File("blank_item.yml", TRUE, ext_yml, "ok",
           Document("dict", Some(s_Zebra),
                    <<RawIngredient(Some(s_blank), Some(PyInt(1)), None, None)>>,
                    <<>>)),
      File("notes.txt", TRUE, ext_txt, "ok", NoDocument),
      File("UPPER.XML", TRUE, ext_XML, "ok",
           Document("dict", Some(s_Zebra), <<>>, <<>>)),
      File("subdir.xml", FALSE, ext_xml, "ok", NoDocument) }

Paths == {f.path : f \in Files}

FileAt(path) == CHOOSE f \in Files : f.path = path

\* the most entries a directory of the model holds
MaxFiles == 3

\* the listings iterdir() may give: distinct paths, in any order
Listings ==
    UNION { {e \in [1..k -> Paths] : \A i, j \in 1..k : i # j => e[i] # e[j]}
            : k \in 0..MaxFiles }

(***************************************************************************)
(* normalize_directory, one action for each step of the call.              *)
(***************************************************************************)

Exception(type, file, message) ==
    [type |-> type, file |-> file, message |-> message]

Init ==
    /\ input_dir \in {[is_dir |-> TRUE, entries |-> e] : e \in Listings}
                     \cup {[is_dir |-> FALSE, entries |-> <<>>]}
    /\ skip_errors \in BOOLEAN
    /\ pc = "call"
    /\ idx = 0
    /\ supported_extensions = {}
    /\ recipes = <<>>
    /\ errors = <<>>
    /\ parsed = <<>>
    /\ returned = <<>>
    /\ raised = None
    /\ conv_quantity = PyInt(0)
    /\ conv_unit = None
    /\ conv_result = None
    /\ round_arg = PyInt(0)
    /\ round_result = None
    /\ serialized = None
    /\ IdleRecipe
    /\ IdleRegistry
    /\ IdleMain

\* the call without the is_dir() test: the loop runs over nothing
NotADirectoryUnchecked ==
    /\ pc = "call"
    /\ ~input_dir.is_dir
    /\ recipes' = <<>>
    /\ supported_extensions' = get_supported_extensions(create_parser_registry)
    /\ errors' = <<>>
    /\ idx' = 1
    /\ pc' = "loop"
    /\ UNCHANGED <<input_dir, skip_errors, parsed, returned, raised>>
    /\ UNCHANGED call_vars

\* if not input_dir.is_dir(): raise ValueError
NotADirectory ==
    /\ pc = "call"
    /\ ~input_dir.is_dir
    /\ raised' = Some(Exception("ValueError", "", s_not_a_directory))
    /\ pc' = "raised"
    /\ UNCHANGED <<input_dir, skip_errors, idx, supported_extensions, recipes,
                   errors, parsed, returned>>
    /\ UNCHANGED call_vars

\* the lines before the loop
EnterLoop ==
    /\ pc = "call"
    /\ input_dir.is_dir
    /\ recipes' = <<>>
    /\ supported_extensions' = get_supported_extensions(create_parser_registry)
    /\ errors' = <<>>
    /\ idx' = 1
    /\ pc' = "loop"
    /\ UNCHANGED <<input_dir, skip_errors, parsed, returned, raised>>
    /\ UNCHANGED call_vars

\* the try statement with a bare raise in the handler: skip_errors unread
TryFailFast(file_path, recipe) ==
    /\ parsed' = Append(parsed, [path |-> file_path.path, result |-> recipe])
    /\ IF recipe.ok
       THEN /\ recipes' = Append(recipes, recipe.val)
            /\ idx' = idx + 1
            /\ UNCHANGED <<pc, errors, raised>>
       ELSE /\ raised' = Some(Exception(recipe.exc, file_path.path, s_empty))
            /\ pc' = "raised"
            /\ UNCHANGED <<idx, recipes, errors>>

\* the try statement with a handler that never raises: skip_errors unread
TrySkipping(file_path, recipe) ==
    /\ parsed' = Append(parsed, [path |-> file_path.path, result |-> recipe])
    /\ IF recipe.ok
       THEN /\ recipes' = Append(recipes, recipe.val)
            /\ idx' = idx + 1
            /\ UNCHANGED <<pc, errors, raised>>
       ELSE IF recipe.exc \in RecipeNormalizerError
       THEN /\ errors' = Append(errors, <<file_path.path, recipe.exc>>)
            /\ idx' = idx + 1
            /\ UNCHANGED <<pc, recipes, raised>>
       ELSE /\ raised' = Some(Exception(recipe.exc, file_path.path, s_empty))
            /\ pc' = "raised"
            /\ UNCHANGED <<idx, recipes, errors>>

\* the try statement with a handler that goes on without errors.append
TrySilently(file_path, recipe) ==
    /\ parsed' = Append(parsed, [path |-> file_path.path, result |-> recipe])
    /\ IF recipe.ok
       THEN /\ recipes' = Append(recipes, recipe.val)
            /\ idx' = idx + 1
            /\ UNCHANGED <<pc, errors, raised>>
       ELSE IF recipe.exc \in RecipeNormalizerError /\ skip_errors
       THEN /\ idx' = idx + 1
            /\ UNCHANGED <<pc, recipes, errors, raised>>
       ELSE /\ raised' = Some(Exception(recipe.exc, file_path.path, s_empty))
            /\ pc' = "raised"
            /\ UNCHANGED <<idx, recipes, errors>>

\* the try statement of the loop body, for what _normalize_file did
Try(file_path, recipe) ==
    /\ parsed' = Append(parsed, [path |-> file_path.path, result |-> recipe])
    /\ IF recipe.ok
       THEN /\ recipes' = Append(recipes, recipe.val)
            /\ idx' = idx + 1
            /\ UNCHANGED <<pc, errors, raised>>
       ELSE IF recipe.exc \in RecipeNormalizerError /\ skip_errors
       THEN /\ errors' = Append(errors, <<file_path.path, recipe.exc>>)
            /\ idx' = idx + 1
            /\ UNCHANGED <<pc, recipes, raised>>
       ELSE /\ raised' = Some(Exception(recipe.exc, file_path.path, s_empty))
            /\ pc' = "raised"
            /\ UNCHANGED <<idx, recipes, errors>>

\* self._normalize_file(file_path) for each path of the file system, with
\* the registry create_parser_registry gives the normalizer
normalize_path ==
    [path \in Paths |-> normalize_file(create_parser_registry, FileAt(path))]

\* a loop body that selects the entries some registered parser says it
\* supports, instead of the entries whose suffix is in supported_extensions
BodyAskingParsers(file_path) ==
    IF ~(file_path.is_file
         /\ \E i \in DOMAIN create_parser_registry :
                supports_extension(create_parser_registry[i], file_path.suffix))
    THEN /\ idx' = idx + 1
         /\ UNCHANGED <<pc, recipes, errors, parsed, raised>>
    ELSE Try(file_path, normalize_path[file_path.path])

\* the loop body
Body(file_path) ==
    IF ~(file_path.is_file /\ file_path.suffix \in supported_extensions)
    THEN /\ idx' = idx + 1
         /\ UNCHANGED <<pc, recipes, errors, parsed, raised>>
    ELSE Try(file_path, normalize_path[file_path.path])

\* one iteration of the loop
Iterate ==
    /\ pc = "loop"
    /\ idx <= Len(input_dir.entries)
    /\ Body(FileAt(input_dir.entries[idx]))
    /\ UNCHANGED <<input_dir, skip_errors, supported_extensions, returned>>
    /\ UNCHANGED call_vars

\* the lines after the loop without the test for an empty list
FinishUnchecked ==
    /\ pc = "loop"
    /\ idx > Len(input_dir.entries)
    /\ returned' = sort_recipes(recipes)
    /\ pc' = "returned"
    /\ UNCHANGED <<input_dir, skip_errors, idx, supported_extensions, recipes,
                   errors, parsed, raised>>
    /\ UNCHANGED call_vars

\* the lines after the loop
Finish ==
    /\ pc = "loop"
    /\ idx > Len(input_dir.entries)
    /\ IF recipes = <<>>
       THEN /\ raised' = Some(Exception("EmptyDirectoryError", "", s_empty))
            /\ pc' = "raised"
            /\ UNCHANGED returned
       ELSE /\ returned' = sort_recipes(recipes)
            /\ pc' = "returned"
            /\ UNCHANGED raised
    /\ UNCHANGED <<input_dir, skip_errors, idx, supported_extensions, recipes,
                   errors, parsed>>
    /\ UNCHANGED call_vars

Next == NotADirectory \/ EnterLoop \/ Iterate \/ Finish

Spec == Init /\ [][Next]_vars

(***************************************************************************)
(* convert, called once on a quantity and a unit.                          *)
(***************************************************************************)

\* the quantities of the model run up to this many quarters
MaxQuarters == 24

\* " Gallon "
s_Gallon_padded == <<32, 71, 97, 108, 108, 111, 110, 32>>
\* "LITER"
s_LITER == <<76, 73, 84, 69, 82>>

\* " Pinch "
s_Pinch_padded == <<32, 80, 105, 110, 99, 104, 32>>

\* the quantities convert is called with: ints and floats from 0 on, the
\* values round the volume threshold, a negative one and nan
Quantities ==
    {PyFloat(k, 4) : k \in 0..MaxQuarters}
    \cup {PyInt(k) : k \in 0..(MaxQuarters \div 4)}
    \cup {PyInt(VOLUME_THRESHOLD_ML + k) : k \in {-1, 0, 1}}
    \cup {PyFloat(2 * VOLUME_THRESHOLD_ML - 1, 2), PyFloat(-3, 2), NaN}

\* the units convert is called with
Units ==
    {None}
    \cup {Some(u) : u \in {s_empty, s_blank, s_cup, s_cups, s_Cup_padded,
                           s_gallon, s_Gallon_padded, s_fl_oz_dots, s_fl_oz,
                           s_floz, s_tablespoon, s_teaspoon, s_ml,
                           s_milliliter, s_liter, s_LITER, s_gr, s_gram, s_kg,
                           s_kilogram, s_pound, s_ounce, s_pinch, s_Pinch_padded,
                           s_meter}}

InitConvert ==
    /\ conv_quantity \in Quantities
    /\ conv_unit \in Units
    /\ conv_result = None
    /\ input_dir = [is_dir |-> FALSE, entries |-> <<>>]
    /\ skip_errors = FALSE
    /\ pc = "idle"
    /\ idx = 0
    /\ supported_extensions = {}
    /\ recipes = <<>>
    /\ errors = <<>>
    /\ parsed = <<>>
    /\ returned = <<>>
    /\ raised = None
    /\ round_arg = PyInt(0)
    /\ round_result = None
    /\ serialized = None
    /\ IdleRecipe
    /\ IdleRegistry
    /\ IdleMain

\* result = converter.convert(quantity, unit)
Convert ==
    /\ conv_result = None
    /\ conv_result' = Some(convert(conv_quantity, conv_unit))
    /\ UNCHANGED <<conv_quantity, conv_unit>>
    /\ UNCHANGED <<dir_vars, round_vars, recipe_vars, registry_vars, main_vars>>

NextConvert == Convert

SpecConvert == InitConvert /\ [][NextConvert]_vars

(***************************************************************************)
(* round_quantity, called on its own.                                      *)
(***************************************************************************)

\* no call of normalize_directory
IdleDirectory ==
    /\ input_dir = [is_dir |-> FALSE, entries |-> <<>>]
    /\ skip_errors = FALSE
    /\ pc = "idle"
    /\ idx = 0
    /\ supported_extensions = {}
    /\ recipes = <<>>
    /\ errors = <<>>
    /\ parsed = <<>>
    /\ returned = <<>>
    /\ raised = None

\* no call of convert
IdleConvert ==
    /\ conv_quantity = PyInt(0)
    /\ conv_unit = None
    /\ conv_result = None

MaxHundredths == 1300

\* the quantities round_quantity is called with: the floats of the decimal
\* literals 0.00, 0.01, ... with two decimals, thirds in between them, a
\* negative one and nan
RoundArgs ==
    {PyFloat(k, 100) : k \in 0..MaxHundredths}
    \cup {PyFloat(k, 3) : k \in 0..(MaxHundredths \div 30)}
    \cup {PyFloat(-3, 2), NaN}

InitRound ==
    /\ round_arg \in RoundArgs
    /\ round_result = None
    /\ serialized = None
    /\ IdleDirectory
    /\ IdleConvert
    /\ IdleRecipe
    /\ IdleRegistry
    /\ IdleMain

\* rounded = converter.round_quantity(quantity)
Round ==
    /\ round_result = None
    /\ round_result' = Some(round_quantity(round_arg))
    /\ UNCHANGED <<round_arg, serialized>>
    /\ UNCHANGED <<dir_vars, conv_vars, recipe_vars, registry_vars, main_vars>>

(***************************************************************************)
(* models.py: the clean form.  A dict is the sequence of its [key, value]  *)
(* items, in insertion order.                                              *)
(***************************************************************************)

\* round(value, 1) of a float that is a number
round1(value) ==
    PyNum("float",
          RoundToDouble(Rat(value.neg,
                            NearestEven(BMulSmall(value.n, 10), value.d),
                            BFromInt(10))))

\* round(value, 2) of a float that is a number: the float of the decimal
\* with two places nearest to it
round2(value) ==
    PyNum("float",
          RoundToDouble(Rat(value.neg,
                            NearestEven(BMulSmall(value.n, 100), value.d),
                            BFromInt(100))))

\* the last three lines of serialize_quantity
whole_or_rounded(rounded) ==
    IF NumEq(rounded, int(rounded)) THEN int(rounded) ELSE rounded

\* serialize_quantity, on None or Some(number); int(nan) raises ValueError
serialize_quantity(value) ==
    IF value = None THEN Ok(None)
    ELSE IF value[1].kind = "int" THEN Ok(value)
    ELSE IF IsNaN(value[1]) THEN Raise("ValueError")
    ELSE Ok(Some(whole_or_rounded(round2(value[1]))))

\* the quantity of an Ingredient built with what round_quantity returned,
\* as model_dump gives it
Serialize ==
    /\ round_result # None
    /\ round_result[1].ok
    /\ ~NumLessInt(round_result[1].val, 0)
    /\ serialized = None
    /\ serialized' = Some(serialize_quantity(Some(round_result[1].val)))
    /\ UNCHANGED <<round_arg, round_result>>
    /\ UNCHANGED <<dir_vars, conv_vars, recipe_vars, registry_vars, main_vars>>

NextRound == Round \/ Serialize

SpecRound == InitRound /\ [][NextRound]_vars

\* the item of a dict for a field, left out when the field is None
Field(key, value) ==
    IF value = None THEN <<>> ELSE <<[key |-> key, value |-> value[1]]>>

\* model_dump(exclude_none=True) of an Ingredient
model_dump_exclude_none(ingredient) ==
    Then(serialize_quantity(ingredient.quantity),
         LAMBDA quantity :
             Ok(Field("item", Some(ingredient.item))
                \o Field("quantity", quantity)
                \o Field("unit", ingredient.unit)
                \o Field("comment", ingredient.comment)))

\* a clean form that keeps an empty unit
Ingredient_model_dump_keeping_unit(ingredient) ==
    model_dump_exclude_none(ingredient)

\* Ingredient.model_dump_clean
Ingredient_model_dump_clean(ingredient) ==
    Then(model_dump_exclude_none(ingredient),
         LAMBDA data :
             Ok(SelectSeq(data, LAMBDA field :
                                    ~(field.key = "unit" /\ field.value = s_empty))))

\* [ing.model_dump_clean() for ing in self.ingredients]
RECURSIVE dump_ingredients(_)
dump_ingredients(ingredients) ==
    IF ingredients = <<>> THEN Ok(<<>>)
    ELSE Then(Ingredient_model_dump_clean(Head(ingredients)),
              LAMBDA data :
                  Then(dump_ingredients(Tail(ingredients)),
                       LAMBDA rest : Ok(<<data>> \o rest)))

\* Recipe.model_dump_clean
Recipe_model_dump_clean(recipe) ==
    Then(dump_ingredients(recipe.ingredients),
         LAMBDA ingredients :
             Ok(<<[key |-> "name", value |-> recipe.name],
                  [key |-> "ingredients", value |-> ingredients],
                  [key |-> "preparations", value |-> recipe.preparations]>>))

(***************************************************************************)
(* _normalize_recipe and model_dump_clean, called on a Recipe object.      *)
(***************************************************************************)

\* the quantity of an Ingredient object: None or a number that is not
\* negative
RecipeQuantities ==
    {None}
    \cup {Some(q) : q \in {PyInt(2), PyInt(10), PyInt(1500), PyFloat(1, 2),
                           PyFloat(58, 100), PyFloat(21, 2),
                           PyFloat(9997, 10), PyFloat(378541, 100000), NaN}}

\* the unit of an Ingredient object
RecipeUnits ==
    {None}
    \cup {Some(u) : u \in {s_empty, s_ml, s_milliliter, s_liter, s_gram,
                           s_gr, s_cup, s_pinch}}

\* the Ingredient objects: the validators have passed
Ingredients ==
    [item : {s_milk, s_egg}, quantity : RecipeQuantities, unit : RecipeUnits,
     comment : {None, Some(s_rinsed)}]

\* the ingredients the longer lists are made of
ListedIngredients ==
    { [item |-> s_milk, quantity |-> Some(PyInt(10)), unit |-> Some(s_ml),
       comment |-> Some(s_rinsed)],
      [item |-> s_egg, quantity |-> Some(PyInt(2)), unit |-> None,
       comment |-> None],
      [item |-> s_rice, quantity |-> Some(PyInt(1500)), unit |-> Some(s_ml),
       comment |-> None],
      [item |-> s_salt, quantity |-> None, unit |-> Some(s_empty),
       comment |-> Some(s_rinsed)] }

MaxIngredients == 2

\* the lists of ingredients of a Recipe object
IngredientLists ==
    {<<i>> : i \in Ingredients}
    \cup UNION {[1..n -> ListedIngredients] : n \in 0..MaxIngredients}

\* the Recipe objects
Recipes ==
    [name : {s_apple, s_Zebra}, ingredients : IngredientLists,
     preparations : {<<>>, <<s_Mix, s_Cook>>}]

InitRecipe ==
    /\ source_recipe \in Recipes
    /\ normalized = None
    /\ renormalized = None
    /\ clean = None
    /\ IdleDirectory
    /\ IdleConvert
    /\ round_arg = PyInt(0)
    /\ round_result = None
    /\ serialized = None
    /\ IdleRegistry
    /\ IdleMain

\* normalized = self._normalize_recipe(recipe)
Normalize ==
    /\ source_recipe # None
    /\ normalized = None
    /\ normalized' = Some(normalize_recipe(source_recipe))
    /\ UNCHANGED <<source_recipe, renormalized, clean>>
    /\ UNCHANGED <<dir_vars, conv_vars, round_vars, registry_vars, main_vars>>

\* self._normalize_recipe(normalized): the normalized recipe normalized again
NormalizeAgain ==
    /\ normalized # None
    /\ normalized[1].ok
    /\ renormalized = None
    /\ renormalized' = Some(normalize_recipe(normalized[1].val))
    /\ UNCHANGED <<source_recipe, normalized, clean>>
    /\ UNCHANGED <<dir_vars, conv_vars, round_vars, registry_vars, main_vars>>

\* recipe.model_dump_clean()
DumpClean ==
    /\ source_recipe # None
    /\ clean = None
    /\ clean' = Some(Recipe_model_dump_clean(source_recipe))
    /\ UNCHANGED <<source_recipe, normalized, renormalized>>
    /\ UNCHANGED <<dir_vars, conv_vars, round_vars, registry_vars, main_vars>>

NextRecipe == Normalize \/ NormalizeAgain \/ DumpClean

SpecRecipe == InitRecipe /\ [][NextRecipe]_vars

(***************************************************************************)
(* ParserRegistry, built by any sequence of register calls.                *)
(***************************************************************************)

\* the parser classes of the package
ParserClasses == {"XmlRecipeParser", "YamlRecipeParser"}

\* the files looked up in the registry: those of the directories, a .json
\* file and a file with an upper-case YAML suffix
LookedUp ==
    Files
    \cup {File("data.json", TRUE, ext_json, "ok", NoDocument),
          File("LOUD.YAML", TRUE, ext_YAML, "ok",
               Document("dict", Some(s_Zebra), <<>>, <<>>))}

MaxParsers == 6

InitRegistry ==
    /\ registry = <<>>
    /\ IdleDirectory
    /\ IdleConvert
    /\ round_arg = PyInt(0)
    /\ round_result = None
    /\ serialized = None
    /\ IdleRecipe
    /\ IdleMain

\* registry.register(parser)
Register ==
    /\ Len(registry) < MaxParsers
    /\ \E parser \in ParserClasses : registry' = Append(registry, parser)
    /\ UNCHANGED <<dir_vars, conv_vars, round_vars, recipe_vars, main_vars>>

NextRegistry == Register

SpecRegistry == InitRegistry /\ [][NextRegistry]_vars

(***************************************************************************)
(* cli.py: main, one action for each step of the command.  The output     *)
(* file is None while nothing was written to it, or Some([complete, data]) *)
(* with the list json.dump was given.                                      *)
(***************************************************************************)

\* the most entries a directory given to the command holds
MaxMainFiles == 2

MainListings == {e \in Listings : Len(e) <= MaxMainFiles}

InitMain ==
    /\ input_dir \in {[is_dir |-> TRUE, entries |-> e] : e \in MainListings}
                     \cup {[is_dir |-> FALSE, entries |-> <<>>]}
    /\ skip_errors \in BOOLEAN
    /\ pc = "main"
    /\ idx = 0
    /\ supported_extensions = {}
    /\ recipes = <<>>
    /\ errors = <<>>
    /\ parsed = <<>>
    /\ returned = <<>>
    /\ raised = None
    /\ IdleConvert
    /\ round_arg = PyInt(0)
    /\ round_result = None
    /\ serialized = None
    /\ IdleRecipe
    /\ IdleRegistry
    /\ IdleMain

\* click.Path(exists=True, file_okay=False) on INPUT_DIR: a path that is no
\* directory ends the command with status 2 before main runs; a path that
\* was a directory when click looked and is none when is_dir() looks goes on
ClickValidates ==
    /\ pc = "main"
    /\ \/ /\ pc' = "call"
          /\ UNCHANGED main_vars
       \/ /\ ~input_dir.is_dir
          /\ pc' = "exited"
          /\ exit_code' = Some(2)
          /\ UNCHANGED output
    /\ UNCHANGED <<input_dir, skip_errors, idx, supported_extensions, recipes,
                   errors, parsed, returned, raised>>
    /\ UNCHANGED <<conv_vars, round_vars, recipe_vars, registry_vars>>

\* _recipes_to_dict
RECURSIVE recipes_to_dict(_)
recipes_to_dict(rs) ==
    IF rs = <<>> THEN Ok(<<>>)
    ELSE Then(Recipe_model_dump_clean(Head(rs)),
              LAMBDA data :
                  Then(recipes_to_dict(Tail(rs)),
                       LAMBDA rest : Ok(<<data>> \o rest)))

\* what _write_json does with the data, for what the file system does:
\* "written", "permission" (open raises PermissionError, nothing is written),
\* "os_error" (an OSError after the file was opened for writing)
write_json(data, outcome) ==
    IF outcome = "written"
    THEN /\ output' = Some([complete |-> TRUE, data |-> data])
         /\ pc' = "exported"
         /\ UNCHANGED raised
    ELSE /\ output' = IF outcome = "permission" THEN output
                      ELSE Some([complete |-> FALSE, data |-> <<>>])
         /\ raised' = Some(Exception("FileWriteError", "", s_empty))
         /\ pc' = "export_raised"

\* an export step that does not wait for normalize_directory to return
ExportUnguarded ==
    /\ pc \in {"returned", "raised"}
    /\ \E outcome \in {"written", "permission", "os_error"} :
           write_json(recipes_to_dict(sort_recipes(recipes)).val, outcome)
    /\ UNCHANGED <<input_dir, skip_errors, idx, supported_extensions, recipes,
                   errors, parsed, returned, exit_code>>
    /\ UNCHANGED <<conv_vars, round_vars, recipe_vars, registry_vars>>

\* normalizer.export_to_json(recipes, output_file), the statement after the
\* call of normalize_directory in the try block
Export ==
    /\ pc = "returned"
    /\ \E outcome \in {"written", "permission", "os_error"} :
           write_json(recipes_to_dict(returned).val, outcome)
    /\ UNCHANGED <<input_dir, skip_errors, idx, supported_extensions, recipes,
                   errors, parsed, returned, exit_code>>
    /\ UNCHANGED <<conv_vars, round_vars, recipe_vars, registry_vars>>

\* the end of the command: status 0 after click.echo; status 1 for the
\* ClickException main raises for a RecipeNormalizerError or a ValueError,
\* and status 1 for an exception main does not catch
Exit ==
    /\ pc \in {"exported", "raised", "export_raised"}
    /\ exit_code' = IF pc = "exported" THEN Some(0) ELSE Some(1)
    /\ pc' = "exited"
    /\ UNCHANGED <<input_dir, skip_errors, idx, supported_extensions, recipes,
                   errors, parsed, returned, raised, output>>
    /\ UNCHANGED <<conv_vars, round_vars, recipe_vars, registry_vars>>

NextMain ==
    \/ ClickValidates
    \/ NotADirectory
    \/ EnterLoop
    \/ Iterate
    \/ Finish
    \/ Export
    \/ Exit

SpecMain == InitMain /\ [][NextMain]_vars

(***************************************************************************)
(* Properties of normalize_directory, checked under Spec.                  *)
(***************************************************************************)

Range(seq) == {seq[i] : i \in DOMAIN seq}

Last(seq) == seq[Len(seq)]

\* the condition under which the loop hands an entry to _normalize_file
Eligible(path) ==
    /\ FileAt(path).is_file
    /\ FileAt(path).suffix \in get_supported_extensions(create_parser_registry)

\* the calls of _normalize_file that returned a recipe
Succeeded(calls) == SelectSeq(calls, LAMBDA call : call.result.ok)

\* the calls of _normalize_file that raised a RecipeNormalizerError
FailedInDomain(calls) ==
    SelectSeq(calls, LAMBDA call : ~call.result.ok
                                   /\ call.result.exc \in RecipeNormalizerError)

RecipesOf(calls) == [i \in 1..Len(calls) |-> calls[i].result.val]

PathsOf(calls) == [i \in 1..Len(calls) |-> calls[i].path]

Count(seq, x) == Cardinality({i \in DOMAIN seq : seq[i] = x})

IsPermutationOf(a, b) ==
    /\ Len(a) = Len(b)
    /\ \A x \in Range(a) \cup Range(b) : Count(a, x) = Count(b, x)

\* lower(r_i.name) >= lower(r_i+1.name) for every adjacent pair
Descending(list) ==
    \A i \in 1..(Len(list) - 1) :
        ~StrLess(Lower(list[i].name), Lower(list[i + 1].name))

\* an exception left the loop body (and not the lines before or after it)
RaisedInLoop == pc = "raised" /\ raised[1].file # ""

\* the loop ran to its end
LoopEnded == pc = "returned" \/ (pc = "raised" /\ input_dir.is_dir /\ ~RaisedInLoop)

\* the entries the loop has reached
Reached ==
    IF pc = "call" \/ ~input_dir.is_dir THEN <<>>
    ELSE SubSeq(input_dir.entries, 1, IF RaisedInLoop THEN idx ELSE idx - 1)

\* C1: whenever normalize_directory returns, the returned list is a
\* permutation of the recipes successfully normalized in the run and is in
\* descending order of lowercased name.
C1_ReturnedIsSortedPermutation ==
    pc = "returned" =>
        /\ IsPermutationOf(returned, RecipesOf(Succeeded(parsed)))
        /\ Descending(returned)

\* a run returned recipes of different names
C1_Witness ==
    /\ pc = "returned"
    /\ Len(returned) >= 2
    /\ Lower(returned[1].name) # Lower(Last(returned).name)

\* C2: with skip_errors true, a file whose processing raises a
\* RecipeNormalizerError is recorded as (path, cause), gives no recipe and
\* does not stop the loop: every eligible entry the loop reaches is
\* processed, and the result holds one recipe for each file that succeeded.
C2_SkipRecordsAndContinues ==
    skip_errors =>
        /\ errors = [i \in 1..Len(FailedInDomain(parsed)) |->
                        <<FailedInDomain(parsed)[i].path,
                          FailedInDomain(parsed)[i].result.exc>>]
        /\ recipes = RecipesOf(Succeeded(parsed))
        /\ PathsOf(parsed) = SelectSeq(Reached, Eligible)
        /\ RaisedInLoop => raised[1].type \notin RecipeNormalizerError
        /\ LoopEnded => Reached = input_dir.entries
        /\ pc = "returned" => Len(returned) = Len(Succeeded(parsed))

\* a run with skip_errors true recorded a failure, went on to a later file
\* that succeeded, and returned
C2_Witness ==
    /\ skip_errors
    /\ pc = "returned"
    /\ \E i, j \in DOMAIN parsed :
           /\ i < j
           /\ <<parsed[i].path, parsed[i].result.exc>> \in Range(errors)
           /\ parsed[j].result.ok

\* C3: with skip_errors false, the first RecipeNormalizerError raised while
\* a file is processed leaves normalize_directory at once: no later file is
\* parsed, nothing is returned, and the exception is the one the file raised.
C3_FailFast ==
    ~skip_errors =>
        \A i \in DOMAIN parsed :
            (~parsed[i].result.ok /\ parsed[i].result.exc \in RecipeNormalizerError)
            => /\ i = Len(parsed)
               /\ pc = "raised"
               /\ raised[1].type = parsed[i].result.exc
               /\ raised[1].file = parsed[i].path
               /\ returned = <<>>
               /\ PathsOf(parsed) = SelectSeq(Reached, Eligible)

\* a run with skip_errors false failed on a file after it had normalized
\* another, with an entry still to come
C3_Witness ==
    /\ ~skip_errors
    /\ pc = "raised"
    /\ raised[1].type \in RecipeNormalizerError \ {"EmptyDirectoryError"}
    /\ recipes # <<>>
    /\ idx < Len(input_dir.entries)

\* C4: normalize_directory never returns an empty list: when the loop ends
\* with no recipe it raises EmptyDirectoryError, whatever skip_errors is.
C4_NeverReturnsEmpty ==
    /\ pc = "returned" => returned # <<>>
    /\ (LoopEnded /\ recipes = <<>>) =>
           (pc = "raised" /\ raised[1].type = "EmptyDirectoryError")

\* every eligible file failed and was skipped, and the run raised
\* EmptyDirectoryError
C4_Witness ==
    /\ pc = "raised"
    /\ raised[1].type = "EmptyDirectoryError"
    /\ skip_errors
    /\ errors # <<>>

\* reading or processing the file failed with an exception that is no
\* RecipeNormalizerError: the read itself crashed (a MemoryError, say), or
\* the exception that left _normalize_file is of another type
FailedOutsideDomain(call) ==
    \/ FileAt(call.path).content.load = "crash"
    \/ ~call.result.ok /\ call.result.exc \notin RecipeNormalizerError

\* C5: whatever skip_errors is and whichever parser reads the file, a
\* failure that is not a domain failure reaches the caller of
\* normalize_directory and is never recorded as a skipped file.
C5_NonDomainFailurePropagates ==
    \A i \in DOMAIN parsed :
        FailedOutsideDomain(parsed[i])
        => /\ i = Len(parsed)
           /\ RaisedInLoop
           /\ raised[1].file = parsed[i].path
           /\ parsed[i].path \notin {e[1] : e \in Range(errors)}

\* the permutations of 1..n
TraversalOrders(n) ==
    {f \in [1..n -> 1..n] : \A i, j \in 1..n : f[i] = f[j] => i = j}

\* what the run returns when the files it parsed are traversed in the order f
ReturnedInOrder(f) ==
    sort_recipes([i \in 1..Len(parsed) |-> parsed[f[i]].result.val])

\* the run returned and every file it parsed succeeded
AllSucceeded == pc = "returned" /\ \A i \in DOMAIN parsed : parsed[i].result.ok

\* no two of the recipes have the same name after lowercasing
DistinctKeys ==
    \A i, j \in DOMAIN parsed :
        i # j => Lower(parsed[i].result.val.name) # Lower(parsed[j].result.val.name)

\* C6 as stated: the returned sequence is the same for every traversal
\* order of the same files, all succeeding.
C6_OrderIndependent ==
    AllSucceeded =>
        \A f \in TraversalOrders(Len(parsed)) : ReturnedInOrder(f) = returned

\* C6, amended: the returned sequence is the same for every traversal order
\* of the same files, all succeeding, when no two recipes have the same name
\* after lowercasing.
C6_OrderIndependentOnDistinctKeys ==
    (AllSucceeded /\ DistinctKeys) =>
        \A f \in TraversalOrders(Len(parsed)) : ReturnedInOrder(f) = returned

\* a run of two or more files, all succeeding, with different lowercased names
C6_Witness ==
    /\ AllSucceeded
    /\ DistinctKeys
    /\ Len(parsed) >= 2

\* C7: the descending sort is stable: of two recipes whose names are equal
\* after lowercasing, the one appended first in the loop comes first in the
\* returned list.
C7_StableDescendingSort ==
    pc = "returned" =>
        \A i, j \in DOMAIN recipes :
            (i < j /\ Lower(recipes[i].name) = Lower(recipes[j].name))
            => \E a, b \in DOMAIN returned :
                   a < b /\ returned[a] = recipes[i] /\ returned[b] = recipes[j]

\* a run returned two different recipes whose lowercased names are equal
C7_Witness ==
    /\ pc = "returned"
    /\ \E i, j \in DOMAIN recipes :
           /\ i < j
           /\ recipes[i] # recipes[j]
           /\ Lower(recipes[i].name) = Lower(recipes[j].name)

\* text contains part
Contains(text, part) ==
    \E i \in 0..(Len(text) - Len(part)) : SubSeq(text, i + 1, i + Len(part)) = part

\* "not a directory"
s_claimed_message ==
    <<110, 111, 116, 32, 97, 32, 100, 105, 114, 101, 99, 116, 111, 114, 121>>

\* C8: when the input path is not a directory, normalize_directory raises a
\* ValueError whose message contains "not a directory", which is no
\* RecipeNormalizerError, before the registry is queried or a file parsed,
\* whatever skip_errors is.
C8_NotADirectoryIsValueError ==
    (~input_dir.is_dir /\ pc # "call") =>
        /\ pc = "raised"
        /\ raised[1].type = "ValueError"
        /\ raised[1].type \notin RecipeNormalizerError
        /\ Contains(raised[1].message, s_claimed_message)
        /\ supported_extensions = {}
        /\ parsed = <<>>

\* the call on a path that is no directory has raised, skip_errors true
C8_Witness ==
    /\ ~input_dir.is_dir
    /\ pc = "raised"
    /\ skip_errors

(***************************************************************************)
(* Properties of convert, checked under SpecConvert.                       *)
(***************************************************************************)

\* the units of the registry that measure a volume
VolumeUnits == {u \in UnitRegistry : u.dim = "volume"}

\* what convert is to return for a quantity q of the volume unit u, whose
\* magnitude in milliliters is ml
MeetsVolumeThreshold(result, q, u, ml) ==
    /\ NumLessInt(ml, 1000) => result = ConversionResult(ml, s_ml)
    /\ NumGeqInt(ml, 1000) =>
           result = ConversionResult(QuantityTo(q, u, s_liter), s_liter)

\* C9: for every volume unit u and quantity q, with q * f the magnitude in
\* milliliters: below 1000, convert returns (q * f, "ml"); at 1000 or above,
\* it returns the source quantity converted to liters, with "liter".
C9_VolumeThreshold ==
    \A u \in VolumeUnits :
        (/\ conv_result # None
         /\ conv_unit # None
         /\ normalize_unit_name(conv_unit[1]) \in u.names)
        => MeetsVolumeThreshold(conv_result[1], conv_quantity, u,
                                QuantityTo(conv_quantity, u, s_milliliter))

\* convert(1000, "ml") gave liters: the threshold is met at exactly 1000
C9_Witness ==
    /\ conv_quantity = PyInt(1000)
    /\ conv_unit = Some(s_ml)
    /\ conv_result # None
    /\ conv_result[1].unit = s_liter

\* convert(q, "cup") has been called with a number
CupConverted ==
    /\ conv_result # None
    /\ conv_unit = Some(s_cup)
    /\ ~IsNaN(conv_quantity)

\* what convert is to return for q cups, q * 240 being milliliters
MeetsMetricCup(result, q, milliliters) ==
    IF NumLessInt(milliliters, 1000)
    THEN result = ConversionResult(milliliters, s_ml)
    ELSE result = ConversionResult(
                      PyNum("float",
                            RoundToDouble(RatMul(RatOfNum(q), RatOf(240, 1000)))),
                      s_liter)

\* C10 as stated: for every quantity q, convert(q, "cup").quantity is
\* q * 240.
C10_CupIs240Times ==
    CupConverted =>
        NumEq(conv_result[1].quantity, FloatMulInt(float(conv_quantity), 240))

\* C10, amended: for every quantity q, convert(q, "cup") is (q * 240, "ml")
\* when q * 240 is below 1000, and otherwise q * 240 / 1000 with "liter":
\* the cup is 240 ml, not 236.588 ml.
C10_CupIs240Milliliters ==
    CupConverted =>
        MeetsMetricCup(conv_result[1], conv_quantity,
                       FloatMulInt(float(conv_quantity), 240))

\* convert(q, "cup") gave liters
C10_Witness ==
    /\ CupConverted
    /\ conv_result[1].unit = s_liter

\* the units of the registry that measure a mass
MassUnits == {u \in UnitRegistry : u.dim = "mass"}

\* C11: for every unit of dimension mass and every quantity q, convert
\* returns q converted to grams with the unit "gr", whatever the magnitude:
\* 1000 g or more is still reported in "gr".
C11_MassIsGrams ==
    \A u \in MassUnits :
        (/\ conv_result # None
         /\ conv_unit # None
         /\ normalize_unit_name(conv_unit[1]) \in u.names)
        => conv_result[1] =
               ConversionResult(QuantityTo(conv_quantity, u, s_gram), s_gr)

\* convert(q, "pound") gave 1000 g or more, in "gr"
C11_Witness ==
    /\ conv_result # None
    /\ conv_unit = Some(s_pound)
    /\ conv_result[1].unit = s_gr
    /\ NumGeqInt(conv_result[1].quantity, 1000)

\* the unit is None, the empty string or all whitespace
BlankUnit(unit) == unit = None \/ \A i \in DOMAIN unit[1] : IsSpace(unit[1][i])

\* x and y are the same number: equal by value, or both nan
SameNumber(x, y) ==
    IF IsNaN(x) \/ IsNaN(y) THEN IsNaN(x) /\ IsNaN(y) ELSE NumEq(x, y)

\* C12: for every quantity q, when the unit is None, the empty string or
\* all whitespace, convert returns a float equal to q and the unit "".
C12_BlankUnitPassesThrough ==
    (conv_result # None /\ BlankUnit(conv_unit)) =>
        /\ SameNumber(conv_result[1].quantity, conv_quantity)
        /\ conv_result[1].quantity.kind # "int"
        /\ conv_result[1].unit = s_empty

\* convert(q, "   ") with an int q that is not zero has returned
C12_Witness ==
    /\ conv_result # None
    /\ conv_unit = Some(s_blank)
    /\ conv_quantity.kind = "int"
    /\ conv_quantity.n # <<>>

\* the unit string is not blank, and is a token the registry does not
\* resolve or a unit whose dimension is neither volume nor mass
UnsupportedUnit(unit) ==
    /\ ~BlankUnit(unit)
    /\ \A u \in UnitRegistry :
           normalize_unit_name(unit[1]) \in u.names
           => u.dim \notin {"volume", "mass"}

ToTwoDecimals(x) ==
    PyNum("float",
          RoundToDouble(Rat(x.neg, NearestEven(BMulSmall(x.n, 100), x.d),
                            BFromInt(100))))

\* x is the float of a decimal with at most two places, as 0.29 and 2.5 are
HasTwoDecimals(x) == NumEq(x, ToTwoDecimals(x))

\* q < r + 0.01, for q and r that are not negative: 100 q < 100 r + 1
WithinOneHundredth(q, r) ==
    BCmp(BMul(BMulSmall(q.n, 100), r.d),
         BMul(BAdd(BMulSmall(r.n, 100), r.d), q.d)) < 0

\* r is q truncated to two decimals, an int when it is whole
IsTruncationOf(r, q) ==
    /\ HasTwoDecimals(r)
    /\ RatCmp(RatOfNum(r), RatOfNum(q)) <= 0
    /\ WithinOneHundredth(q, r)
    /\ HasTwoDecimals(q) => NumEq(r, q)
    /\ NumEq(r, int(r)) => r.kind = "int"

\* C14: for every quantity q with 0 <= q < 10, round_quantity(q) is q
\* truncated to two decimals and never rounded up: r has two decimals,
\* r <= q < r + 0.01, a q of at most two decimals is returned unchanged, and
\* a whole r is returned as an int.
C14_TruncatesToTwoDecimals ==
    (/\ round_result # None
     /\ NumGeqInt(round_arg, 0)
     /\ NumLessInt(round_arg, 10))
    => /\ round_result[1].ok
       /\ IsTruncationOf(round_result[1].val, round_arg)

\* the integer nearest to n / d, a tie going away from zero, for the floor m
HalfAwayFromZero(n, d, m) ==
    IF HalfCompare(n, d, m) >= 0 THEN BAdd(m, <<1>>) ELSE m

\* C15: for every quantity q >= 10, round_quantity(q) is the integer
\* nearest to q, a q half-way between two integers going away from zero
\* (10.5 -> 11, 12.5 -> 13).
C15_RoundsHalfAwayFromZero ==
    (round_result # None /\ NumGeqInt(round_arg, 10)) =>
        round_result[1] =
            Ok(PyNum("int",
                     Rat(FALSE,
                         HalfAwayFromZero(round_arg.n, round_arg.d,
                                          BQuot(round_arg.n, round_arg.d)),
                         <<1>>)))

(***************************************************************************)
(* Properties of _normalize_recipe and model_dump_clean, checked under     *)
(* SpecRecipe.                                                             *)
(***************************************************************************)

\* the metric target units, as an ingredient names them
MetricUnits == {Some(s_ml), Some(s_liter), Some(s_gram), Some(s_gr)}

\* the short display form of a metric target unit
ShortForm(unit) == IF unit = s_gram THEN s_gr ELSE unit

\* the ingredient out has the quantity of the ingredient ing and the short
\* form of its unit
KeepsMetric(ing, out) ==
    /\ out.quantity # None
    /\ SameNumber(out.quantity[1], ing.quantity[1])
    /\ out.unit = Some(ShortForm(ing.unit[1]))

\* C16: normalizing an ingredient whose unit is already a metric target
\* unit (ml, liter, gram, gr) returns an equal quantity and the short form
\* of the same unit, for every quantity; and normalizing the output of a
\* normalization returns it unchanged.
C16_IdempotentOnMetric ==
    /\ (normalized # None /\ normalized[1].ok) =>
           \A i \in DOMAIN source_recipe.ingredients :
               (/\ source_recipe.ingredients[i].quantity # None
                /\ source_recipe.ingredients[i].unit \in MetricUnits)
               => KeepsMetric(source_recipe.ingredients[i],
                              normalized[1].val.ingredients[i])
    /\ renormalized # None => renormalized[1] = normalized[1]

\* C17: the normalized Recipe has the name, the preparations and the number
\* of ingredients of the parsed one, and its i-th ingredient has the item
\* and the comment of the i-th parsed ingredient: only quantity and unit
\* change, and no ingredient is reordered, dropped or duplicated.
C17_NormalizationFrame ==
    (normalized # None /\ normalized[1].ok) =>
        /\ normalized[1].val.name = source_recipe.name
        /\ normalized[1].val.preparations = source_recipe.preparations
        /\ Len(normalized[1].val.ingredients) = Len(source_recipe.ingredients)
        /\ \A i \in DOMAIN source_recipe.ingredients :
               /\ normalized[1].val.ingredients[i].item
                      = source_recipe.ingredients[i].item
               /\ normalized[1].val.ingredients[i].comment
                      = source_recipe.ingredients[i].comment

\* a recipe of two ingredients with different items and comments was
\* normalized, and the unit of its second ingredient changed
C17_Witness ==
    /\ normalized # None
    /\ normalized[1].ok
    /\ Len(source_recipe.ingredients) = 2
    /\ source_recipe.ingredients[1].item # source_recipe.ingredients[2].item
    /\ source_recipe.ingredients[1].comment
           # source_recipe.ingredients[2].comment
    /\ source_recipe.preparations # <<>>
    /\ normalized[1].val.ingredients[2].unit
           # source_recipe.ingredients[2].unit

\* the keys of a dict, in order
Keys(data) == [i \in 1..Len(data) |-> data[i].key]

\* the value of a key the dict has
ValueOf(data, key) == data[CHOOSE i \in DOMAIN data : data[i].key = key].value

\* the key is to appear in the clean form of the ingredient
InCleanForm(ingredient, key) ==
    \/ key = "item"
    \/ key = "quantity" /\ ingredient.quantity # None
    \/ key = "unit" /\ ingredient.unit \notin {None, Some(s_empty)}
    \/ key = "comment" /\ ingredient.comment # None

\* data is the clean form the claim describes for the ingredient
IsCleanFormOf(data, ingredient) ==
    /\ Keys(data) = SelectSeq(<<"item", "quantity", "unit", "comment">>,
                              LAMBDA key : InCleanForm(ingredient, key))
    /\ ValueOf(data, "item") = ingredient.item

\* C18: in the clean form of an ingredient the keys come in the order item,
\* quantity, unit, comment; a key is present iff its field is not absent,
\* except that unit is also left out when it is the empty string; item is
\* always present.  In the clean form of a recipe the keys are name,
\* ingredients, preparations in that order, with the ingredients in recipe
\* order.
C18_CleanForm ==
    (clean # None /\ clean[1].ok) =>
        /\ Keys(clean[1].val) = <<"name", "ingredients", "preparations">>
        /\ ValueOf(clean[1].val, "name") = source_recipe.name
        /\ ValueOf(clean[1].val, "preparations") = source_recipe.preparations
        /\ Len(ValueOf(clean[1].val, "ingredients"))
               = Len(source_recipe.ingredients)
        /\ \A i \in DOMAIN source_recipe.ingredients :
               IsCleanFormOf(ValueOf(clean[1].val, "ingredients")[i],
                             source_recipe.ingredients[i])

\* the clean form was taken of a recipe whose first ingredient has all four
\* fields and whose second has an empty unit and no quantity
C18_Witness ==
    /\ clean # None
    /\ clean[1].ok
    /\ Len(source_recipe.ingredients) = 2
    /\ Keys(ValueOf(clean[1].val, "ingredients")[1])
           = <<"item", "quantity", "unit", "comment">>
    /\ source_recipe.ingredients[2].unit = Some(s_empty)
    /\ Keys(ValueOf(clean[1].val, "ingredients")[2]) = <<"item", "comment">>

(***************************************************************************)
(* Properties of ParserRegistry, checked under SpecRegistry.               *)
(***************************************************************************)

\* the positions of the registered parsers that accept the suffix
AcceptingPositions(suffix) ==
    {i \in DOMAIN registry : supports_extension(registry[i], suffix)}

\* the least of a set of positions that is not empty
Earliest(positions) == CHOOSE i \in positions : \A j \in positions : i <= j

\* the lookup of the file gives the earliest registered parser that accepts
\* its suffix; with none, it gives None and parse raises
\* UnsupportedFormatError
FirstMatchWins(file, positions) ==
    IF positions = {}
    THEN /\ get_parser_for_file(registry, file) = None
         /\ registry_parse(registry, file) = Raise("UnsupportedFormatError")
    ELSE get_parser_for_file(registry, file) = Some(registry[Earliest(positions)])

IsSelected(path) ==
    /\ FileAt(path).is_file
    /\ \E parser \in Range(create_parser_registry) :
           FileAt(path).suffix \in SUPPORTED_EXTENSIONS(parser)

\* some parser of the registry answers that it supports the suffix
AcceptedIfAsked(path) ==
    \E parser \in Range(create_parser_registry) :
        supports_extension(parser, FileAt(path).suffix)

\* the paths of the errors recorded so far
ErrorPaths == {errors[i][1] : i \in DOMAIN errors}

\* C20: normalize_directory parses an entry of the directory if and only if
\* it is a regular file whose suffix is, by exact case-sensitive match, in
\* the union of the registry's supported extensions; every other entry (a
\* subdirectory, a .txt file, a file with an upper-case suffix that a parser
\* would accept if asked) is not parsed, adds no recipe and records no error.
C20_SelectsByExactSuffix ==
    /\ PathsOf(parsed) = SelectSeq(Reached, IsSelected)
    /\ \A path \in Range(Reached) :
           ~IsSelected(path) =>
               /\ path \notin Range(PathsOf(parsed))
               /\ path \notin ErrorPaths
    /\ Len(recipes) = Len(Succeeded(parsed))
    /\ ErrorPaths \subseteq Range(PathsOf(parsed))

\* a run that came to its end over a directory holding a subdirectory named
\* like a recipe file, a file with an upper-case suffix that the XML parser
\* accepts when asked, and a file that was parsed
C20_Witness ==
    /\ pc = "returned"
    /\ Len(parsed) = 1
    /\ \E path \in Range(input_dir.entries) :
           ~FileAt(path).is_file /\ AcceptedIfAsked(path)
    /\ \E path \in Range(input_dir.entries) :
           FileAt(path).is_file /\ AcceptedIfAsked(path) /\ ~IsSelected(path)

\* the invariants of the data model on a recipe: a name that is not empty
\* after trimming; on each ingredient, an item that is not empty after
\* trimming and a quantity that is absent or >= 0
ValidIngredient(ingredient) ==
    /\ Strip(ingredient.item) # s_empty
    /\ ingredient.quantity = None \/ NumGeqInt(ingredient.quantity[1], 0)

ValidRecipe(r) ==
    /\ Strip(r.name) # s_empty
    /\ \A i \in DOMAIN r.ingredients : ValidIngredient(r.ingredients[i])

\* a record of a document from which the parser builds an Ingredient with
\* an item of white space only, or with a negative quantity
BuildsInvalidIngredient(data) ==
    /\ data.item # None
    /\ data.item[1] # s_empty
    /\ \/ Strip(data.item[1]) = s_empty
       \/ /\ parse_quantity(data) # None
          /\ NumLessInt(parse_quantity(data)[1], 0)

\* a file read as a mapping from which the parser builds a Recipe with a
\* name of white space only, or an Ingredient that is not valid
BuildsInvalidModel(file) ==
    /\ file.content.load = "ok"
    /\ file.content.doc.shape = "dict"
    /\ file.content.doc.name # None
    /\ file.content.doc.name[1] # s_empty
    /\ \/ Strip(file.content.doc.name[1]) = s_empty
       \/ \E i \in DOMAIN file.content.doc.ingredients :
              BuildsInvalidIngredient(file.content.doc.ingredients[i])

\* C21: every recipe normalize_directory collects or returns has a name that
\* is not empty after trimming, and each of its ingredients has an item that
\* is not empty after trimming and a quantity that is absent or >= 0; a file
\* from which a Recipe with a blank name, or an Ingredient with a blank item
\* or a negative quantity, would be built fails validation and gives no
\* recipe.
C21_DataModelInvariant ==
    /\ \A i \in DOMAIN recipes : ValidRecipe(recipes[i])
    /\ \A i \in DOMAIN returned : ValidRecipe(returned[i])
    /\ \A i \in DOMAIN parsed :
           BuildsInvalidModel(FileAt(parsed[i].path)) =>
               parsed[i].result = Raise("ValidationError")

\* a run that skipped a file with a negative quantity and a file with a blank
\* item, and returned a recipe whose ingredient has a quantity
C21_Witness ==
    /\ pc = "returned"
    /\ \E i \in DOMAIN parsed :
           \E k \in DOMAIN FileAt(parsed[i].path).content.doc.ingredients :
               LET data == FileAt(parsed[i].path).content.doc.ingredients[k]
               IN  data.item # None /\ Strip(data.item[1]) = s_empty
    /\ \E i \in DOMAIN parsed :
           \E k \in DOMAIN FileAt(parsed[i].path).content.doc.ingredients :
               LET data == FileAt(parsed[i].path).content.doc.ingredients[k]
               IN  /\ data.quantity # None
                   /\ data.quantity[1].kind # "str"
                   /\ NumLessInt(data.quantity[1], 0)
    /\ \E i \in DOMAIN returned :
           \E k \in DOMAIN returned[i].ingredients :
               returned[i].ingredients[k].quantity # None

\* a text that is there and is empty after trimming
EmptyText(field) == field # None /\ Strip(field[1]) = s_empty

\* a number that is there, that float() reads, and that is negative
NegativeNumber(field) ==
    field # None /\ field[1].kind # "str" /\ NumLessInt(field[1], 0)

\* the content read from the file breaks an invariant of the data model: an
\* empty name, a record with an empty item, or a negative quantity
ViolatesDataModel(file) ==
    /\ file.content.load = "ok"
    /\ file.content.doc.shape = "dict"
    /\ \/ EmptyText(file.content.doc.name)
       \/ \E i \in DOMAIN file.content.doc.ingredients :
              \/ EmptyText(file.content.doc.ingredients[i].item)
              \/ NegativeNumber(file.content.doc.ingredients[i].quantity)

\* C22: when the content parsed from a file breaks an invariant of the data
\* model (an empty recipe name, an ingredient record with an empty item, a
\* negative quantity), parsing the file fails with ValidationError; the run
\* raises it when skip_errors is false, and records it by path and goes on
\* when skip_errors is true.
C22_InvalidContentIsValidationFailure ==
    \A i \in DOMAIN parsed :
        ViolatesDataModel(FileAt(parsed[i].path)) =>
            /\ parsed[i].result = Raise("ValidationError")
            /\ IF skip_errors
               THEN <<parsed[i].path, "ValidationError">> \in Range(errors)
               ELSE /\ pc = "raised"
                    /\ raised[1].type = "ValidationError"
                    /\ raised[1].file = parsed[i].path

\* normalize_directory raised: the exception is not one of the export step
NormalizationFailed == raised # None /\ raised[1].type # "FileWriteError"

\* C23: in a run of the command the output file is written only after
\* normalize_directory returned a list that is not empty; in a run where
\* normalization fails (the input is no directory, a failure that is not
\* skipped, no recipe left) the export step is not executed, nothing is
\* written to the output file, and the command ends with a status that is
\* not 0.
C23_NoOutputOnFailure ==
    /\ output # None => returned # <<>> /\ ~NormalizationFailed
    /\ NormalizationFailed => output = None /\ pc \in {"raised", "exited"}
    /\ (pc = "exited" /\ (NormalizationFailed \/ returned = <<>>)) =>
           exit_code # None /\ exit_code[1] # 0
    /\ (pc = "exited" /\ exit_code = Some(0)) =>
           output # None /\ output[1].complete

\* a run with skip_errors in which every file was skipped: it ended with
\* status 1 and no output file
C23_Witness ==
    /\ pc = "exited"
    /\ skip_errors
    /\ errors # <<>>
    /\ raised # None
    /\ raised[1].type = "EmptyDirectoryError"
    /\ output = None
    /\ exit_code = Some(1)

\* the entries whose iteration of the loop is over
Completed ==
    IF ~input_dir.is_dir THEN <<>>
    ELSE SubSeq(input_dir.entries, 1, idx - 1)

\* the eligible entries whose iteration of the loop is over
Processed == SelectSeq(Completed, IsSelected)

\* the number of (path, cause) entries of the error list for the path
TimesRecorded(path) == Cardinality({i \in DOMAIN errors : errors[i][1] = path})

\* the number of recipes the file of the path gave
TimesSucceeded(path) ==
    Cardinality({i \in DOMAIN parsed : parsed[i].path = path /\ parsed[i].result.ok})

\* C24: with skip_errors true, at every step of the loop each eligible file
\* whose iteration is over is accounted for exactly once, by one recipe of
\* the success list or by one (path, cause) entry of the error list:
\* |recipes| + |errors| is the number of eligible files processed, and no
\* file is left without a record or recorded twice.
C24_Accounting ==
    skip_errors =>
        /\ Len(recipes) + Len(errors) = Len(Processed)
        /\ \A path \in Range(Processed) :
               TimesRecorded(path) + TimesSucceeded(path) = 1
        /\ \A i \in DOMAIN errors :
               /\ errors[i][1] \in Range(Processed)
               /\ \E k \in DOMAIN parsed :
                      /\ parsed[k].path = errors[i][1]
                      /\ parsed[k].result = Raise(errors[i][2])
        /\ Len(recipes) = Len(Succeeded(parsed))

\* the loop with skip_errors true is past a file that gave a recipe, a file
\* that was recorded as an error, and an entry that is not eligible
C24_Witness ==
    /\ skip_errors
    /\ pc = "loop"
    /\ recipes # <<>>
    /\ errors # <<>>
    /\ Len(Completed) > Len(Processed)

\* the parser the reference registry dispatches the file of the path to
Dispatched(path) == get_parser_for_file(create_parser_registry, FileAt(path))

\* C25: with the registry of the command line (the XML parser, then the
\* YAML parser), every file that passes the extension test of the loop is
\* accepted by a registered parser, so normalize_directory never meets
\* UnsupportedFormatError, and the parser the file is dispatched to is one
\* whose extensions contain the suffix of the file.
C25_FilterAgreesWithRegistry ==
    /\ \A i \in DOMAIN parsed :
           /\ parsed[i].result # Raise("UnsupportedFormatError")
           /\ Dispatched(parsed[i].path) # None
           /\ FileAt(parsed[i].path).suffix
                  \in SUPPORTED_EXTENSIONS(Dispatched(parsed[i].path)[1])
    /\ \A i \in DOMAIN errors : errors[i][2] # "UnsupportedFormatError"
    /\ raised # None => raised[1].type # "UnsupportedFormatError"
    /\ \A ext \in supported_extensions :
           \E k \in DOMAIN create_parser_registry :
               supports_extension(create_parser_registry[k], ext)

\* a run handed an .xml file to the XML parser and a .yaml or .yml file to
\* the YAML parser
C25_Witness ==
    /\ pc = "returned"
    /\ \E i \in DOMAIN parsed :
           Dispatched(parsed[i].path) = Some("XmlRecipeParser")
    /\ \E i \in DOMAIN parsed :
           Dispatched(parsed[i].path) = Some("YamlRecipeParser")

\* C26: the export does not change a normalized quantity: the quantity the
\* clean form gives for a value round_quantity returned is that value, as
\* the same kind of number; a value truncated to 3.66 is not rounded again
\* to 3.67.
C26_SerializerKeepsRounded ==
    serialized # None =>
        /\ serialized[1].ok
        /\ serialized[1].val # None
        /\ NumEq(serialized[1].val[1], round_result[1].val)
        /\ serialized[1].val[1].kind = round_result[1].val.kind

\* a quantity below 10 whose round(q, 2) is above its truncation: the
\* truncated value went through the serializer
C26_Witness ==
    /\ serialized # None
    /\ round_arg.kind = "float"
    /\ ~IsNaN(round_arg)
    /\ NumLessInt(round_arg, 10)
    /\ ~NumEq(round2(round_arg), round_result[1].val)

\* C27: an ingredient without a quantity comes out of the normalization as
\* it went in: item, unit and comment as they were, the unit neither put in
\* a metric form nor turned from the empty string into None, also when the
\* unit is one that convert changes, such as "cup".
C27_NoQuantityUnchanged ==
    (normalized # None /\ normalized[1].ok) =>
        \A i \in DOMAIN source_recipe.ingredients :
            source_recipe.ingredients[i].quantity = None =>
                normalized[1].val.ingredients[i] = source_recipe.ingredients[i]

\* a recipe whose ingredient has no quantity, the unit "cup" and a comment
\* was normalized
C27_Witness ==
    /\ normalized # None
    /\ normalized[1].ok
    /\ \E i \in DOMAIN source_recipe.ingredients :
           /\ source_recipe.ingredients[i].quantity = None
           /\ source_recipe.ingredients[i].unit = Some(s_cup)
           /\ source_recipe.ingredients[i].comment # None

\* the unit and the magnitude of a normalized ingredient agree with the
\* threshold of 1000 ml
AgreesWithThreshold(ingredient) ==
    ingredient.quantity # None =>
        /\ ingredient.unit = Some(s_ml) =>
               NumLessInt(ingredient.quantity[1], VOLUME_THRESHOLD_ML)
        /\ ingredient.unit = Some(s_liter) =>
               NumGeqInt(ingredient.quantity[1], 1)

\* C28: in a normalized recipe an ingredient whose unit is "ml" has a
\* quantity below 1000 and an ingredient whose unit is "liter" has a
\* quantity of at least 1: the choice between ml and liter made by convert
\* still agrees with the threshold after round_quantity.
C28_UnitAgreesWithMagnitude ==
    (normalized # None /\ normalized[1].ok) =>
        \A i \in DOMAIN normalized[1].val.ingredients :
            AgreesWithThreshold(normalized[1].val.ingredients[i])
====
